---- MODULE Spec2Model ----
(***************************************************************************)
(* A model of the fightcade-api client library.                            *)
(*                                                                         *)
(* The repository holds four generations of the same client:               *)
(*   "legacy"     src/fightcade-api.ts, lines 664-1110 (no validation,     *)
(*                positional overloads, try/catch rethrow)                 *)
(*   "overload"   src/fightcade-api.ts, lines 1-662 (no validation,        *)
(*                positional overloads)                                    *)
(*   "positional" src/src/fightcade-api.mts (zod schemas, positional       *)
(*                parameters with default values)                          *)
(*   "options"    src/src/fightcade-api.ts (zod schemas, one options       *)
(*                record per operation)                                    *)
(*                                                                         *)
(* An invocation is: build the request, fetch it (one await), read the     *)
(* body as JSON (second await), validate, return or throw.  The caller may *)
(* run between the two awaits.                                             *)
(***************************************************************************)
EXTENDS Integers, Sequences, FiniteSets, TLC

VARIABLES pc, gen, op, args, sent, response, outcome

vars == <<pc, gen, op, args, sent, response, outcome>>

(***************************************************************************)
(* JSON / JavaScript values.  Every value is a record tagged by t; the     *)
(* payload field has a different name per tag, so that two values of       *)
(* different JavaScript types are simply unequal.                          *)
(***************************************************************************)
Str(s) == [t |-> "str", s |-> s]

Num(n) == [t |-> "num", n |-> n]

Bool(b) == [t |-> "bool", b |-> b]

Null == [t |-> "null"]

Undef == [t |-> "undef"]

Obj(f) == [t |-> "obj", o |-> f]

Arr(a) == [t |-> "arr", a |-> a]

NoFields == [k \in {} |-> Undef]

\* o[key] on a plain object: the own property, or undefined.
Field(v, key) == IF key \in DOMAIN v.o THEN v.o[key] ELSE Undef

\* Array.prototype.map over a sequence.
Map(F(_), s) == [i \in 1..Len(s) |-> F(s[i])]

\* A function object, e.g. the Object.prototype.toString every object inherits.
Fn(name) == [t |-> "fn", name |-> name]

\* The value the text JSON.stringify(v) denotes: at every depth a property
\* that is undefined or a function is left out of its object, and such an
\* element of an array is written null; NaN is written null.
RECURSIVE JsonText(_)
JsonText(v) ==
    CASE v.t = "obj" ->
           Obj([k \in {k2 \in DOMAIN v.o : v.o[k2].t \notin {"undef", "fn"}} |-> JsonText(v.o[k])])
      [] v.t = "arr" ->
           Arr([i \in 1..Len(v.a) |-> IF v.a[i].t \in {"undef", "fn"} THEN Null ELSE JsonText(v.a[i])])
      [] v.t = "nan" -> Null
      [] OTHER -> v

\* JSON.stringify of the request object o, followed by the server's
\* JSON.parse.
JSONstringify(o) == JsonText(Obj(o))

(***************************************************************************)
(* JavaScript property access, as the two generations without schemas use  *)
(* it on the unvalidated response.  v.key throws a TypeError when v is     *)
(* undefined or null; otherwise it is the property, or undefined.          *)
(***************************************************************************)
CanRead(v) == v.t \notin {"undef", "null"}

\* The properties every value inherits from Object.prototype.
ObjectPrototypeNames ==
    {"constructor", "toString", "toLocaleString", "valueOf", "hasOwnProperty",
     "isPrototypeOf", "propertyIsEnumerable", "__proto__",
     "__defineGetter__", "__defineSetter__", "__lookupGetter__", "__lookupSetter__"}

\* A property found on the prototype chain of v: its constructor, its
\* prototype object, or a method of Object.prototype.
Inherited(v, key) ==
    LET ConstructorName ==
            CASE v.t = "obj" -> "Object"
              [] v.t = "arr" -> "Array"
              [] v.t = "str" -> "String"
              [] v.t = "num" -> "Number"
              [] v.t = "bool" -> "Boolean"
              [] OTHER -> "Function"
    IN  CASE key = "constructor" -> Fn(ConstructorName)
          [] key = "__proto__" -> [t |-> "proto", of |-> v.t]
          [] OTHER -> Fn(key)

\* v[key]: the own property, else the inherited one, else undefined.
JsGet(v, key) ==
    CASE v.t = "obj" /\ key \in DOMAIN v.o -> v.o[key]
      [] v.t = "arr" /\ key = "length" -> Num(Len(v.a))
      [] v.t = "str" /\ key = "length" -> Num(Len(v.s))
      [] key \in ObjectPrototypeNames -> Inherited(v, key)
      [] OTHER -> Undef

\* v[0]: the first element of an array, the first character of a string.
JsFirst(v) ==
    CASE v.t = "arr" -> IF Len(v.a) > 0 THEN v.a[1] ELSE Undef
      [] v.t = "obj" -> Field(v, "0")
      [] v.t = "str" -> IF Len(v.s) > 0 THEN Str(SubSeq(v.s, 1, 1)) ELSE Undef
      [] OTHER -> Undef

\* v has no primitive value: an object whose own toString is not a function
\* (every key "toString" of a JSON object) hides the inherited one, and the
\* inherited valueOf gives the object back.  An array is converted through
\* its elements.
RECURSIVE NoPrimitive(_)
NoPrimitive(v) ==
    CASE v.t = "obj" -> "toString" \in DOMAIN v.o /\ v.o["toString"].t # "fn"
      [] v.t = "arr" -> \E i \in 1..Len(v.a) : NoPrimitive(v.a[i])
      [] OTHER -> FALSE

\* What a conversion of such a value throws.
PrimitiveError ==
    [kind |-> "throw",
     error |-> [name |-> "TypeError", message |-> "Cannot convert object to primitive value"]]

\* String(v), or the error it throws.  An array is its elements joined by
\* ",", null and undefined among them written as nothing.
RECURSIVE JsString(_), JsJoin(_)
JsString(v) ==
    CASE NoPrimitive(v) -> PrimitiveError
      [] v.t = "str" -> v.s
      [] v.t = "undef" -> "undefined"
      [] v.t = "null" -> "null"
      [] v.t = "nan" -> "NaN"
      [] v.t = "num" -> ToString(v.n)
      [] v.t = "bool" -> IF v.b THEN "true" ELSE "false"
      [] v.t = "arr" -> JsJoin(v.a)
      [] v.t = "fn" -> "function " \o v.name \o "() { [native code] }"
      [] OTHER -> "[object Object]"

JsJoin(a) ==
    IF \E i \in 1..Len(a) : NoPrimitive(a[i])
      THEN PrimitiveError
    ELSE IF Len(a) = 0
      THEN ""
      ELSE LET first == IF a[1].t \in {"undef", "null"} THEN "" ELSE JsString(a[1])
           IN  IF Len(a) = 1 THEN first ELSE first \o "," \o JsJoin(Tail(a))

\* The message of `new Error(v)`: String(v), and "" for undefined; the
\* conversion may throw instead.
JsMessage(v) == IF v.t = "undef" THEN "" ELSE JsString(v)

\* v + 1: a number plus one, with null, true and false taken as 0, 1 and 0,
\* undefined giving NaN, and everything else concatenated as a string; the
\* conversion of an object may throw instead.
JsPlusOne(v) ==
    CASE NoPrimitive(v) -> PrimitiveError
      [] v.t = "num" -> Num(v.n + 1)
      [] v.t = "null" -> Num(1)
      [] v.t = "bool" -> Num(IF v.b THEN 2 ELSE 1)
      [] v.t \in {"undef", "nan"} -> [t |-> "nan"]
      [] OTHER -> Str(JsString(v) \o "1")

(***************************************************************************)
(* Errors and outcomes.                                                    *)
(***************************************************************************)
Return(v) == [kind |-> "return", value |-> v]

Throw(e) == [kind |-> "throw", error |-> e]

JsError(m) == [name |-> "Error", message |-> m]

RangeError == [name |-> "RangeError", message |-> ""]

TypeError == [name |-> "TypeError", message |-> "Cannot read properties"]

FetchError == [name |-> "TypeError", message |-> "fetch failed"]

SyntaxError == [name |-> "SyntaxError", message |-> "Unexpected token"]

ZodError(issues) == [name |-> "ZodError", issues |-> issues]

(***************************************************************************)
(* zod.  A schema is data; ZParse interprets it the way zod's parse does:  *)
(* objects strip undeclared keys and report the issues of all their keys,  *)
(* records validate every key and keep every key but "__proto__", a union  *)
(* returns its first matching option.                                      *)
(***************************************************************************)
ZString == [k |-> "string"]

ZNumber == [k |-> "number"]

ZBoolean == [k |-> "boolean"]

ZLiteral(s) == [k |-> "literal", lit |-> Str(s)]

ZNativeEnum(e) == [k |-> "nativeEnum", enum |-> e]

ZOptional(s) == [k |-> "optional", inner |-> s]

ZNullable(s) == [k |-> "nullable", inner |-> s]

ZOr(a, b) == [k |-> "union", options |-> <<a, b>>]

ZObject(shape) == [k |-> "object", shape |-> shape]

ZArray(s) == [k |-> "array", element |-> s]

ZRecord(s) == [k |-> "record", valueType |-> s]

\* a.merge(b): the keys of both, b's schema where both declare a key.
ZMerge(a, b) == ZObject(b.shape @@ a.shape)

ZOk(v) == [ok |-> TRUE, v |-> v, issues |-> {}]

ZFail(issues) == [ok |-> FALSE, v |-> Undef, issues |-> issues]

ZIssue(code, path) == [code |-> code, path |-> path]

\* The values of a native enum object, e.g. {Unranked: 0, E: 1, ...}.
EnumValues(e) == {e[n] : n \in DOMAIN e}

\* The result recorded for key (or index) k in a set of <<k, result>> pairs.
At(pairs, k) == (CHOOSE p \in pairs : p[1] = k)[2]

RECURSIVE ZParse(_, _, _)
ZParse(schema, v, path) ==
    CASE schema.k = "string" ->
           IF v.t = "str" THEN ZOk(v) ELSE ZFail({ZIssue("invalid_type", path)})
      [] schema.k = "number" ->
           IF v.t = "num" THEN ZOk(v) ELSE ZFail({ZIssue("invalid_type", path)})
      [] schema.k = "boolean" ->
           IF v.t = "bool" THEN ZOk(v) ELSE ZFail({ZIssue("invalid_type", path)})
      [] schema.k = "literal" ->
           IF v = schema.lit THEN ZOk(v) ELSE ZFail({ZIssue("invalid_literal", path)})
      [] schema.k = "nativeEnum" ->
           IF v.t \notin {"str", "num"}
             THEN ZFail({ZIssue("invalid_type", path)})
             ELSE IF v.t = "num" /\ v.n \in EnumValues(schema.enum)
                    THEN ZOk(v)
                    ELSE ZFail({ZIssue("invalid_enum_value", path)})
      [] schema.k = "optional" ->
           IF v.t = "undef" THEN ZOk(Undef) ELSE ZParse(schema.inner, v, path)
      [] schema.k = "nullable" ->
           IF v.t = "null" THEN ZOk(Null) ELSE ZParse(schema.inner, v, path)
      [] schema.k = "union" ->
           LET r == {<<i, ZParse(schema.options[i], v, path)>> : i \in 1..Len(schema.options)}
               good == {p[1] : p \in {q \in r : q[2].ok}}
           IN  IF good = {}
                 THEN ZFail({ZIssue("invalid_union", path)})
                 ELSE At(r, CHOOSE i \in good : \A j \in good : i <= j)
      [] schema.k = "object" ->
           IF v.t # "obj"
             THEN ZFail({ZIssue("invalid_type", path)})
             ELSE LET r == {<<key, ZParse(schema.shape[key], Field(v, key), Append(path, key))>> :
                              key \in DOMAIN schema.shape}
                      kept == {p[1] : p \in {q \in r : q[1] \in DOMAIN v.o \/ q[2].v.t # "undef"}}
                  IN  IF \A p \in r : p[2].ok
                        THEN ZOk(Obj([key \in kept |-> At(r, key).v]))
                        ELSE ZFail(UNION {p[2].issues : p \in r})
      [] schema.k = "array" ->
           IF v.t # "arr"
             THEN ZFail({ZIssue("invalid_type", path)})
             ELSE LET r == {<<i, ZParse(schema.element, v.a[i], Append(path, ToString(i - 1)))>> :
                              i \in 1..Len(v.a)}
                  IN  IF \A p \in r : p[2].ok
                        THEN ZOk(Arr([i \in 1..Len(v.a) |-> At(r, i).v]))
                        ELSE ZFail(UNION {p[2].issues : p \in r})
      [] schema.k = "record" ->
           IF v.t # "obj"
             THEN ZFail({ZIssue("invalid_type", path)})
             ELSE LET r == {<<key, ZParse(schema.valueType, v.o[key], Append(path, key))>> :
                              key \in DOMAIN v.o}
                  IN  IF \A p \in r : p[2].ok
                        THEN ZOk(Obj([key \in DOMAIN v.o \ {"__proto__"} |-> At(r, key).v]))
                        ELSE ZFail(UNION {p[2].issues : p \in r})

\* schema.parse(v): the parsed value or a thrown ZodError.
Parse(schema, v) ==
    LET r == ZParse(schema, v, <<>>)
    IN  IF r.ok THEN Return(r.v) ELSE Throw(ZodError(r.issues))

(***************************************************************************)
(* The generations and what each exports.                                  *)
(***************************************************************************)
Generations == {"legacy", "overload", "positional", "options"}

\* The two generations that validate responses with zod schemas.
ZodGenerations == {"positional", "options"}

\* The two generations of src/fightcade-api.ts, which trust the response.
RootGenerations == {"legacy", "overload"}

(***************************************************************************)
(* The schemas.  Where the .mts and the .ts generation declare different   *)
(* schemas under one name, the definition takes the generation.            *)
(***************************************************************************)
ResponseSchema == ZObject([res |-> ZLiteral("OK")])

RankEnumSchema ==
    ZNativeEnum([Unranked |-> 0, E |-> 1, D |-> 2, C |-> 3, B |-> 4, A |-> 5, S |-> 6])

\* Per-game statistics declared as an object of the one game of the
\* examples, so that zod strips every other game id: C29 is what tells the
\* two apart.
GameInfoSchemaOneGame ==
    ZObject([umk3 |-> ZObject([rank |-> ZOptional(ZNullable(RankEnumSchema)),
                               num_matches |-> ZOptional(ZNumber),
                               last_match |-> ZOptional(ZNumber),
                               time_played |-> ZNumber])])

GameInfoSchema ==
    ZRecord(ZObject([rank |-> ZOptional(ZNullable(RankEnumSchema)),
                     num_matches |-> ZOptional(ZNumber),
                     last_match |-> ZOptional(ZNumber),
                     time_played |-> ZNumber]))

\* A user schema that requires the avatar: C14 is what tells the two apart.
UserSchemaAvatarRequired ==
    ZObject([name |-> ZString,
             gravatar |-> ZString,
             ranked |-> ZBoolean,
             last_online |-> ZOptional(ZNumber),
             date |-> ZNumber,
             gameinfo |-> ZOptional(GameInfoSchema)])

UserSchema ==
    ZObject([name |-> ZString,
             gravatar |-> ZOptional(ZString),
             ranked |-> ZBoolean,
             last_online |-> ZOptional(ZNumber),
             date |-> ZNumber,
             gameinfo |-> ZOptional(GameInfoSchema)])

UserResponseSchema == ZMerge(ResponseSchema, ZObject([user |-> UserSchema]))

\* A country schema that forgot the name, which zod then strips: C22 is what
\* tells the two apart.
CountrySchemaNoName == ZObject([iso_code |-> ZString])

CountrySchema == ZObject([iso_code |-> ZString, full_name |-> ZString])

\* A player schema that knows the country only as a string: the union of
\* C8 is what tells the two apart.
PlayerSchemaStringCountry ==
    ZObject([name |-> ZString,
             country |-> ZString,
             rank |-> ZOptional(ZNullable(RankEnumSchema)),
             score |-> ZOptional(ZNullable(ZNumber)),
             gameinfo |-> ZOptional(GameInfoSchema)])

PlayerSchema ==
    ZObject([name |-> ZString,
             country |-> ZOr(CountrySchema, ZString),
             rank |-> ZOptional(ZNullable(RankEnumSchema)),
             score |-> ZOptional(ZNullable(ZNumber)),
             gameinfo |-> ZOptional(GameInfoSchema)])

PlayerResultsSchema == ZObject([results |-> ZArray(PlayerSchema), count |-> ZNumber])

PlayerResultsResponseSchema ==
    ZMerge(ResponseSchema, ZObject([results |-> PlayerResultsSchema]))

\* A replay schema that does not declare saved_views and so drops it: C9
\* is what tells the two apart.
ReplaySchemaNoSavedViews(g) ==
    ZObject([quarkid |-> ZString,
             channelname |-> ZString,
             date |-> ZNumber,
             duration |-> ZNumber,
             emulator |-> ZString,
             gameid |-> ZString,
             num_matches |-> IF g = "options" THEN ZOptional(ZNumber) ELSE ZNumber,
             players |-> ZArray(PlayerSchema),
             ranked |-> IF g = "options"
                          THEN ZNullable(ZOr(ZNumber, ZLiteral("cancelled")))
                          ELSE ZNumber,
             replay_file |-> ZOptional(ZString),
             realtime_views |-> ZOptional(ZNumber)])

ReplaySchema(g) ==
    ZObject([quarkid |-> ZString,
             channelname |-> ZString,
             date |-> ZNumber,
             duration |-> ZNumber,
             emulator |-> ZString,
             gameid |-> ZString,
             num_matches |-> IF g = "options" THEN ZOptional(ZNumber) ELSE ZNumber,
             players |-> ZArray(PlayerSchema),
             ranked |-> IF g = "options"
                          THEN ZNullable(ZOr(ZNumber, ZLiteral("cancelled")))
                          ELSE ZNumber,
             replay_file |-> ZOptional(ZString),
             realtime_views |-> ZOptional(ZNumber),
             saved_views |-> ZOptional(ZNumber)])

ReplayResultsSchema(g) == ZObject([results |-> ZArray(ReplaySchema(g)), count |-> ZNumber])

ReplayResultsResponseSchema(g) ==
    ZMerge(ResponseSchema, ZObject([results |-> ReplayResultsSchema(g)]))

VideoURLResponse == ZRecord(ZString)

GameSchema(g) ==
    ZObject([gameid |-> ZString,
             romof |-> ZOptional(ZString),
             name |-> ZString,
             year |-> IF g = "options" THEN ZOptional(ZString) ELSE ZString,
             publisher |-> IF g = "options" THEN ZOptional(ZString) ELSE ZString,
             emulator |-> ZString,
             available_for |-> ZNumber,
             system |-> ZString,
             ranked |-> ZBoolean,
             training |-> IF g = "options" THEN ZOptional(ZBoolean) ELSE ZBoolean,
             genres |-> IF g = "options" THEN ZOptional(ZArray(ZString)) ELSE ZArray(ZString)])

GameResponseSchema(g) == ZMerge(ResponseSchema, ZObject([game |-> GameSchema(g)]))

EventSchema ==
    ZObject([name |-> ZString,
             author |-> ZString,
             date |-> ZNumber,
             gameid |-> ZString,
             link |-> ZString,
             region |-> ZString,
             stream |-> ZOptional(ZString)])

EventResultsSchema == ZObject([results |-> ZArray(EventSchema), count |-> ZNumber])

EventResultsResponseSchema ==
    ZMerge(ResponseSchema, ZObject([results |-> EventResultsSchema]))

(***************************************************************************)
(* The base URLs of each generation, and the exported Rank table.          *)
(***************************************************************************)
URL(g) ==
    IF g \in ZodGenerations
      THEN [API |-> "https://www.fightcade.com/api/",
            REPLAY |-> "https://replay.fightcade.com/",
            VIDS |-> "https://fightcadevids.com/api/videolinks"]
      ELSE [API |-> "https://www.fightcade.com/api/",
            REPLAY |-> "https://replay.fightcade.com/",
            VIDEO |-> "https://fightcadevids.com/video/"]

Rank(g) ==
    IF g \in ZodGenerations
      THEN [n \in 0..6 |-> <<"Unranked", "E", "D", "C", "B", "A", "S">>[n + 1]]
      ELSE [n \in 1..6 |-> <<"E", "D", "C", "B", "A", "S">>[n]]

NetworkOps(g) ==
    IF g \in ZodGenerations
      THEN {"GetUser", "GetReplay", "GetReplays", "GetUserReplays", "GetRankings",
            "GetGame", "GetEvents", "GetVideoURL", "GetVideoURLs"}
      ELSE {"GetUser", "GetReplay", "GetReplays", "GetUserReplays", "GetRankings"}

PureOps(g) ==
    IF g \in ZodGenerations THEN {"GetReplayURL"} ELSE {"GetReplayURL", "GetVideoURL"}

\* The names a caller can import from the module: the positional module
\* exports its namespace and a default object, the options module its
\* namespace and each member of it by name, the root modules each name.
Exports(g) ==
    CASE g = "positional" -> {"Fightcade", "default"}
      [] g = "options" -> {"Fightcade", "Rank"} \cup NetworkOps(g) \cup PureOps(g)
      [] OTHER -> {"Rank"} \cup NetworkOps(g) \cup PureOps(g)

\* The members of an exported namespace or default object (none for a
\* function or the rank table).
Members(g, name) ==
    IF g \in ZodGenerations /\ name \in {"Fightcade", "default"}
      THEN {"Rank"} \cup NetworkOps(g) \cup PureOps(g)
      ELSE {}

\* The types the declared parameters of an export take (none for Rank, a value).
ParameterTypes(g, f) ==
    CASE f \in {"GetUser", "GetReplay", "GetGame"} -> {"string"}
      [] f = "GetReplays" ->
             IF g = "options" THEN {"string", "number", "boolean"} ELSE {"number", "boolean"}
      [] f = "GetUserReplays" -> {"string", "number", "boolean"}
      [] f = "GetRankings" ->
             IF g \in ZodGenerations THEN {"string", "number", "boolean"} ELSE {"string", "boolean"}
      [] f = "GetEvents" -> {"string", "number"}
      [] f = "GetReplayURL" -> {"Replay"}
      [] f = "GetVideoURL" -> {"string", "Replay"}
      [] f = "GetVideoURLs" -> {"string[]", "Replay[]"}
      [] OTHER -> {}

\* The expression the documentation gives for a player's country.
DisplayString(country) ==
    IF country.t = "str" THEN country ELSE Field(country, "full_name")

(***************************************************************************)
(* Request building.  An argument that the caller does not supply is       *)
(* undefined; a parameter default (limit = 15) replaces undefined.         *)
(***************************************************************************)
\* A parameter without its default: C1 is what tells the two apart.
DefaultForgotten(v, d) == v

Default(v, d) == IF v.t = "undef" THEN d ELSE v

\* {...a, ...b}: the properties of both, b's value where both have the key.
Spread(a, b) == b @@ a

\* (typeof replay === 'string') ? replay : replay.quarkid, which throws on
\* null and undefined.
QuarkidOf(replay) ==
    IF replay.t = "str" THEN replay
    ELSE IF ~CanRead(replay) THEN Throw(TypeError)
    ELSE JsGet(replay, "quarkid")

\* Building the request of o throws: an input of the video lookups has no
\* quarkid to read, or the inputs are no array to map over.
RequestThrows(o, a) ==
    CASE o = "GetVideoURL" -> ~CanRead(a.replay)
      [] o = "GetVideoURLs" ->
           \/ a.replays.t # "arr"
           \/ \E i \in 1..Len(a.replays.a) : ~CanRead(a.replays.a[i])
      [] OTHER -> FALSE

\* What it throws: a value that is not null or undefined and is no array
\* has no map to call, everything else fails on a property read.
RequestError(o, a) ==
    IF o = "GetVideoURLs" /\ CanRead(a.replays) /\ a.replays.t # "arr"
      THEN [name |-> "TypeError", message |-> "replays.map is not a function"]
      ELSE TypeError

\* A request that copies every supplied parameter on its own: C27 is what
\* tells the two apart.
OverloadOptionsEach(a) ==
    LET given == {k \in {"limit", "offset", "best", "since"} : a[k].t # "undef"}
    IN  [k \in given |-> a[k]]

\* The overload chain of the two root generations: a parameter is copied into
\* the request only inside the branch that found it and all before it defined.
OverloadOptions(a) ==
    IF a.limit.t # "undef" /\ a.offset.t # "undef" /\ a.best.t # "undef" /\ a.since.t # "undef"
      THEN [limit |-> a.limit, offset |-> a.offset, best |-> a.best, since |-> a.since]
      ELSE IF a.limit.t # "undef" /\ a.offset.t # "undef" /\ a.best.t # "undef"
             THEN [limit |-> a.limit, offset |-> a.offset, best |-> a.best]
             ELSE IF a.limit.t # "undef" /\ a.offset.t # "undef"
                    THEN [limit |-> a.limit, offset |-> a.offset]
                    ELSE NoFields

GetUserRequest(g, a) == [req |-> Str("getuser"), username |-> a.username]

GetReplayRequest(g, a) == [req |-> Str("searchquarks"), quarkid |-> a.quarkid]

\* A positional search that does not forward since: C28 is what tells the
\* two apart.
GetReplaysRequestNoSince(g, a) ==
    CASE g \in RootGenerations ->
           Spread([req |-> Str("searchquarks")], OverloadOptions(a))
      [] g = "positional" ->
           [req |-> Str("searchquarks"),
            limit |-> Default(a.limit, Num(15)),
            offset |-> Default(a.offset, Num(0)),
            best |-> Default(a.best, Bool(FALSE))]
      [] g = "options" ->
           Spread([req |-> Str("searchquarks")], a.args)

GetReplaysRequest(g, a) ==
    CASE g \in RootGenerations ->
           Spread([req |-> Str("searchquarks")], OverloadOptions(a))
      [] g = "positional" ->
           [req |-> Str("searchquarks"),
            limit |-> Default(a.limit, Num(15)),
            offset |-> Default(a.offset, Num(0)),
            best |-> Default(a.best, Bool(FALSE)),
            since |-> Default(a.since, Num(0))]
      [] g = "options" ->
           Spread([req |-> Str("searchquarks")], a.args)

\* A user search that forgets the caller's options: C16 is what tells the
\* two apart.
GetUserReplaysRequestBare(g, a) == [req |-> Str("searchquarks"), username |-> a.username]

GetUserReplaysRequest(g, a) ==
    CASE g \in RootGenerations ->
           Spread([req |-> Str("searchquarks"), username |-> a.username], OverloadOptions(a))
      [] g = "positional" ->
           [req |-> Str("searchquarks"),
            username |-> a.username,
            limit |-> Default(a.limit, Num(15)),
            offset |-> Default(a.offset, Num(0)),
            best |-> Default(a.best, Bool(FALSE)),
            since |-> Default(a.since, Num(0))]
      [] g = "options" ->
           Spread([req |-> Str("searchquarks"), username |-> a.username], a.args)

GetRankingsRequest(g, a) ==
    CASE g \in RootGenerations ->
           [req |-> Str("searchrankings"),
            gameid |-> a.gameid,
            byElo |-> Default(a.byElo, Bool(TRUE)),
            recent |-> Default(a.recent, Bool(TRUE))]
      [] g = "positional" ->
           [req |-> Str("searchrankings"),
            gameid |-> a.gameid,
            limit |-> Default(a.limit, Num(15)),
            offset |-> Default(a.offset, Num(0)),
            byElo |-> Default(a.byElo, Bool(TRUE)),
            recent |-> Default(a.recent, Bool(TRUE))]
      [] g = "options" ->
           Spread([req |-> Str("searchrankings"), gameid |-> a.gameid], a.args)

\* A game request under another operation name: C15 is what tells the two
\* apart.
GetGameRequestRenamed(g, a) == [req |-> Str("getgame"), gameid |-> a.gameid]

GetGameRequest(g, a) == [req |-> Str("gameinfo"), gameid |-> a.gameid]

GetEventsRequest(g, a) ==
    CASE g = "positional" ->
           [req |-> Str("searchevents"),
            gameid |-> a.gameid,
            limit |-> Default(a.limit, Num(15)),
            offset |-> Default(a.offset, Num(0))]
      [] g = "options" ->
           Spread([req |-> Str("searchevents")], a.args)

GetVideoURLRequest(g, a) == [ids |-> Arr(<<QuarkidOf(a.replay)>>)]

\* A lookup that sends its inputs as they are: C17 is what tells the two
\* apart.
GetVideoURLsRequestRaw(g, a) == [ids |-> a.replays]

GetVideoURLsRequest(g, a) == [ids |-> Arr(Map(QuarkidOf, a.replays.a))]

\* The object each operation hands to JSON.stringify.
RequestObject(g, o, a) ==
    CASE o = "GetUser" -> GetUserRequest(g, a)
      [] o = "GetReplay" -> GetReplayRequest(g, a)
      [] o = "GetReplays" -> GetReplaysRequest(g, a)
      [] o = "GetUserReplays" -> GetUserReplaysRequest(g, a)
      [] o = "GetRankings" -> GetRankingsRequest(g, a)
      [] o = "GetGame" -> GetGameRequest(g, a)
      [] o = "GetEvents" -> GetEventsRequest(g, a)
      [] o = "GetVideoURL" -> GetVideoURLRequest(g, a)
      [] o = "GetVideoURLs" -> GetVideoURLsRequest(g, a)

\* The endpoint each operation posts to.
Endpoint(g, o) == IF o \in {"GetVideoURL", "GetVideoURLs"} THEN URL(g).VIDS ELSE URL(g).API

\* The second argument of fetch: the zod generations add the JSON content type.
RequestInit(g, o, a) ==
    [method |-> "POST",
     headers |-> IF g \in ZodGenerations
                   THEN ("Content-Type" :> "application/json")
                   ELSE NoFields,
     body |-> JSONstringify(RequestObject(g, o, a))]

\* fetch(url, init): one outbound request is put on the wire.
Fetch(log, url, init) == Append(log, [url |-> url] @@ init)

(***************************************************************************)
(* What each operation does with the value `await response.json()` gave.   *)
(***************************************************************************)
\* if (x.res !== 'OK') throw new Error(x.res), on an unvalidated response.
StatusThrows(json) == JsGet(json, "res") # Str("OK")

StatusError(json) ==
    IF NoPrimitive(JsGet(json, "res"))
      THEN PrimitiveError
      ELSE Throw(JsError(JsMessage(JsGet(json, "res"))))

\* results.count !== results.results.length + 1, for a length the addition
\* does not throw on.
CountMismatch(count, length) ==
    LET sum == JsPlusOne(length)
    IN  sum.t = "nan" \/ count # sum

GetUserResult(g, a, json) ==
    IF g \in RootGenerations
      THEN IF ~CanRead(json) THEN Throw(TypeError)
           ELSE IF StatusThrows(json) THEN StatusError(json)
           ELSE Return(JsGet(json, "user"))
      ELSE LET r == Parse(UserResponseSchema, json)
           IN  IF r.kind = "throw" THEN r ELSE Return(Field(r.value, "user"))

\* v.at(-1): C30 is what tells it from the first.
JsLast(v) == IF v.t = "arr" /\ Len(v.a) > 0 THEN v.a[Len(v.a)] ELSE Undef

\* A GetReplay that takes the last result of the list: C30 is what tells the
\* two apart.
GetReplayResultLast(g, a, json) ==
    IF g \in RootGenerations
      THEN IF ~CanRead(json) THEN Throw(TypeError)
           ELSE IF StatusThrows(json) THEN StatusError(json)
           ELSE IF ~CanRead(JsGet(json, "results")) THEN Throw(TypeError)
           ELSE IF ~CanRead(JsGet(JsGet(json, "results"), "results")) THEN Throw(TypeError)
           ELSE LET first == JsLast(JsGet(JsGet(json, "results"), "results"))
                IN  IF g = "overload" /\ first = Undef
                      THEN Throw(RangeError)
                      ELSE Return(first)
      ELSE LET r == Parse(ReplayResultsResponseSchema(g), json)
           IN  IF r.kind = "throw" THEN r
               ELSE Parse(ReplaySchema(g), JsLast(Field(Field(r.value, "results"), "results")))

GetReplayResult(g, a, json) ==
    IF g \in RootGenerations
      THEN IF ~CanRead(json) THEN Throw(TypeError)
           ELSE IF StatusThrows(json) THEN StatusError(json)
           ELSE IF ~CanRead(JsGet(json, "results")) THEN Throw(TypeError)
           ELSE IF ~CanRead(JsGet(JsGet(json, "results"), "results")) THEN Throw(TypeError)
           ELSE LET first == JsFirst(JsGet(JsGet(json, "results"), "results"))
                IN  IF g = "overload" /\ first = Undef
                      THEN Throw(RangeError)
                      ELSE Return(first)
      ELSE LET r == Parse(ReplayResultsResponseSchema(g), json)
           IN  IF r.kind = "throw" THEN r
               ELSE Parse(ReplaySchema(g), JsFirst(Field(Field(r.value, "results"), "results")))

\* GetReplays, GetUserReplays and GetRankings of the root generations.
RootListResult(json) ==
    IF ~CanRead(json) THEN Throw(TypeError)
    ELSE IF StatusThrows(json) THEN StatusError(json)
    ELSE IF ~CanRead(JsGet(json, "results")) THEN Throw(TypeError)
    ELSE IF ~CanRead(JsGet(JsGet(json, "results"), "results")) THEN Throw(TypeError)
    ELSE LET results == JsGet(json, "results")
             length == JsGet(JsGet(results, "results"), "length")
         IN  IF NoPrimitive(length) THEN JsPlusOne(length)
             ELSE IF CountMismatch(JsGet(results, "count"), length)
               THEN Throw(RangeError)
               ELSE Return(JsGet(results, "results"))

\* schema.parse(json).results.results of the zod generations.
ZodListResult(schema, json) ==
    LET r == Parse(schema, json)
    IN  IF r.kind = "throw" THEN r
        ELSE Return(Field(Field(r.value, "results"), "results"))

GetReplaysResult(g, a, json) ==
    IF g \in RootGenerations
      THEN RootListResult(json)
      ELSE ZodListResult(ReplayResultsResponseSchema(g), json)

GetUserReplaysResult(g, a, json) ==
    IF g \in RootGenerations
      THEN RootListResult(json)
      ELSE ZodListResult(ReplayResultsResponseSchema(g), json)

GetRankingsResult(g, a, json) ==
    IF g \in RootGenerations
      THEN RootListResult(json)
      ELSE ZodListResult(PlayerResultsResponseSchema, json)

GetGameResult(g, a, json) ==
    LET r == Parse(GameResponseSchema(g), json)
    IN  IF r.kind = "throw" THEN r ELSE Return(Field(r.value, "game"))

GetEventsResult(g, a, json) == ZodListResult(EventResultsResponseSchema, json)

\* if (url) return url: the empty string is falsy.
Truthy(v) == v.t \notin {"undef", "null"} /\ v # Str("") /\ v # Num(0) /\ v # Bool(FALSE)

GetVideoURLResult(g, a, json) ==
    LET r == Parse(VideoURLResponse, json)
    IN  IF r.kind = "throw" THEN r
        ELSE LET id == JsString(QuarkidOf(a.replay))
                 url == JsGet(r.value, id)
             IN  IF NoPrimitive(QuarkidOf(a.replay)) THEN id
                 ELSE IF Truthy(url)
                   THEN Return(url)
                   ELSE Throw(JsError("Property '" \o id
                                      \o "' does not exist on type 'Fightcade.VideoURLs'"))

\* A lookup that fails when a requested id has no video: C12 is what tells
\* the two apart.
GetVideoURLsAllOrNothing(g, a, json) ==
    LET r == Parse(VideoURLResponse, json)
    IN  IF r.kind = "throw" THEN r
        ELSE IF \E i \in 1..Len(a.replays.a) :
                   JsGet(r.value, QuarkidOf(a.replays.a[i]).s) = Undef
               THEN Throw(JsError("video not found"))
               ELSE r

GetVideoURLsResult(g, a, json) == Parse(VideoURLResponse, json)

\* The rest of an operation once the body has been read as JSON.
Result(g, o, a, json) ==
    CASE o = "GetUser" -> GetUserResult(g, a, json)
      [] o = "GetReplay" -> GetReplayResult(g, a, json)
      [] o = "GetReplays" -> GetReplaysResult(g, a, json)
      [] o = "GetUserReplays" -> GetUserReplaysResult(g, a, json)
      [] o = "GetRankings" -> GetRankingsResult(g, a, json)
      [] o = "GetGame" -> GetGameResult(g, a, json)
      [] o = "GetEvents" -> GetEventsResult(g, a, json)
      [] o = "GetVideoURL" -> GetVideoURLResult(g, a, json)
      [] o = "GetVideoURLs" -> GetVideoURLsResult(g, a, json)

(***************************************************************************)
(* The transport.  fetch rejects only when the network fails: an HTTP      *)
(* status is never read by the client.  fetch resolves when the headers    *)
(* have arrived; the body is read by response.json(), which rejects with a *)
(* TypeError when the connection ends before the body does and with a      *)
(* SyntaxError on a body that is not JSON.                                 *)
(***************************************************************************)
NetworkFailure == [kind |-> "neterr"]

Http(status, body) == [kind |-> "http", status |-> status, body |-> body]

\* A body that ended before it was complete.
Terminated == [json |-> FALSE, read |-> "terminated"]

NotJson == [json |-> FALSE]

Json(v) == [json |-> TRUE, v |-> v]

\* How the invocation of o settles on transport response resp.
Settle(g, o, a, resp) ==
    IF resp.kind = "neterr" THEN Throw(FetchError)
    ELSE IF resp.body = Terminated THEN Throw([name |-> "TypeError", message |-> "terminated"])
    ELSE IF ~resp.body.json THEN Throw(SyntaxError)
    ELSE Result(g, o, a, resp.body.v)

(***************************************************************************)
(* The derived-URL helpers: no request, a string template.                 *)
(***************************************************************************)
\* A replay link with the game id ahead of the emulator: C10 is what tells
\* the two apart.
GetReplayURLSwapped(g, replay) ==
    URL(g).REPLAY \o replay.o.gameid.s \o "/" \o replay.o.emulator.s \o "/" \o replay.o.quarkid.s

\* A replay link that also names the channel: C11 is what tells the two
\* apart.
GetReplayURLWithChannel(g, replay) ==
    URL(g).REPLAY \o replay.o.emulator.s \o "/" \o replay.o.gameid.s \o "/" \o replay.o.quarkid.s
      \o "#" \o replay.o.channelname.s

GetReplayURL(g, replay) ==
    URL(g).REPLAY \o replay.o.emulator.s \o "/" \o replay.o.gameid.s \o "/" \o replay.o.quarkid.s

\* A template without the typeof test, which interpolates a Replay as any
\* object is: C23 is what tells the two apart.
GetVideoURLTemplateUntested(g, replay) ==
    IF replay.t = "str"
      THEN URL(g).VIDEO \o replay.s
      ELSE URL(g).VIDEO \o "[object Object]"

\* The string-template GetVideoURL of the root generations.
GetVideoURLTemplate(g, replay) ==
    IF replay.t = "str"
      THEN URL(g).VIDEO \o replay.s
      ELSE URL(g).VIDEO \o replay.o.quarkid.s

(***************************************************************************)
(* The inputs: what callers pass and what the two services may answer.     *)
(***************************************************************************)
\* The longest result list a response carries.
MaxResults == 2

\* All sequences over S of length at most n.
SeqsUpTo(S, n) == UNION {[1..k -> S] : k \in 0..n}

\* The records that give each key of a subset of DOMAIN full its value in full.
SubRecords(full) == {[k \in ks |-> full[k]] : ks \in SUBSET DOMAIN full}

\* The records over DOMAIN full in which a key holds its value or undefined.
Supplied(full) ==
    {[k \in DOMAIN full |-> IF k \in ks THEN full[k] ELSE Undef] : ks \in SUBSET DOMAIN full}

Usernames == {Str("biggs"), Str("no_such_user")}

Quarkids == {Str("q1"), Str("q2")}

GameInfoSample ==
    Obj([umk3 |-> Obj([rank |-> Num(3), num_matches |-> Num(2),
                       last_match |-> Num(5), time_played |-> Num(7)]),
         sfa3 |-> Obj([rank |-> Null, time_played |-> Num(9), hours |-> Num(1)])])

UserMin == Obj([name |-> Str("biggs"), ranked |-> Bool(TRUE), date |-> Num(1600)])

UserFull ==
    Obj([name |-> Str("biggs"), gravatar |-> Str("https://gravatar/biggs"),
         ranked |-> Bool(TRUE), last_online |-> Num(1700), date |-> Num(1600),
         gameinfo |-> GameInfoSample])

\* After the two named users: one with an undeclared key, one whose name is
\* no string, one without a date, and one whose statistics arrive with a
\* game id "__proto__".
UserSamples ==
    {UserMin, UserFull,
     Obj(UserMin.o @@ [email |-> Str("biggs@example.org")]),
     Obj([name |-> Num(1), ranked |-> Bool(TRUE), date |-> Num(1600)]),
     Obj([name |-> Str("biggs"), ranked |-> Bool(TRUE)]),
     Obj(UserMin.o @@ [gameinfo |-> Obj(("__proto__" :> Obj([time_played |-> Num(1)]))
                                          @@ [umk3 |-> Obj([time_played |-> Num(2)])])])}

\* A country with a key the schema does not declare.
CountryFlag ==
    Obj([iso_code |-> Str("US"), full_name |-> Str("United States"), flag |-> Str("us.png")])

PlayerString == Obj([name |-> Str("biggs"), country |-> Str("US")])

PlayerObject ==
    Obj([name |-> Str("alex"), country |-> CountryFlag, rank |-> Num(3),
         score |-> Num(2), gameinfo |-> GameInfoSample])

PlayerBadCountry == Obj([name |-> Str("dora"), country |-> Num(1)])

\* The third: a player whose rank is no ordinal of the enumeration.
PlayerSamples ==
    {PlayerString, PlayerObject,
     Obj([name |-> Str("carl"), country |-> Str("US"), rank |-> Num(7)]),
     PlayerBadCountry}

ReplayFull ==
    Obj([quarkid |-> Str("q1"), channelname |-> Str("Ultimate Mortal Kombat 3"),
         date |-> Num(1638), duration |-> Num(90), emulator |-> Str("fbneo"),
         gameid |-> Str("umk3"), num_matches |-> Num(3),
         players |-> Arr(<<PlayerString, PlayerObject>>), ranked |-> Num(3),
         replay_file |-> Str("q1.fs"), realtime_views |-> Num(4), saved_views |-> Num(6)])

ReplayCancelled ==
    Obj([quarkid |-> Str("q2"), channelname |-> Str("Garou"), date |-> Num(1639),
         duration |-> Num(10), emulator |-> Str("fbneo"), gameid |-> Str("garou"),
         players |-> Arr(<<PlayerString>>), ranked |-> Str("cancelled"),
         views |-> Num(1)])

ReplayUnranked ==
    Obj([quarkid |-> Str("q2"), channelname |-> Str("Garou"), date |-> Num(1639),
         duration |-> Num(10), emulator |-> Str("flycast"), gameid |-> Str("garou"),
         num_matches |-> Num(1), players |-> Arr(<<>>)])

ReplayBadId ==
    Obj([quarkid |-> Num(1), channelname |-> Str("Garou"), date |-> Num(1639),
         duration |-> Num(10), emulator |-> Str("fbneo"), gameid |-> Str("garou"),
         num_matches |-> Num(1), players |-> Arr(<<PlayerString>>), ranked |-> Num(1)])

\* The replay q1 as a caller holds it after a later fetch: the same match,
\* other values in the fields that no URL is built from.
ReplayRefetched ==
    Obj([quarkid |-> Str("q1"), channelname |-> Str("UMK3"), date |-> Num(1640),
         duration |-> Num(90), emulator |-> Str("fbneo"), gameid |-> Str("umk3"),
         players |-> Arr(<<PlayerObject>>), ranked |-> Num(5), saved_views |-> Num(8)])

\* The last: the replay q1 of a player whose statistics arrive with a game
\* id "__proto__".
ReplaySamples ==
    {ReplayFull, ReplayCancelled, ReplayUnranked, ReplayBadId,
     Obj([players |->
            Arr(<<Obj([name |-> Str("erin"), country |-> Str("US"), rank |-> Num(2),
                       score |-> Num(1),
                       gameinfo |-> Obj(("__proto__" :> Obj([time_played |-> Num(1)]))
                                          @@ [umk3 |-> Obj([time_played |-> Num(2)])])])>>)]
           @@ ReplayFull.o)}

GameMin ==
    Obj([gameid |-> Str("umk3"), name |-> Str("Ultimate Mortal Kombat 3"),
         emulator |-> Str("fbneo"), available_for |-> Num(3), system |-> Str("arcade"),
         ranked |-> Bool(TRUE)])

GameOptional ==
    [romof |-> Str("mk3"), year |-> Str("1995"), publisher |-> Str("Midway"),
     training |-> Bool(FALSE), genres |-> Arr(<<Str("Fighting")>>)]

GameSamples ==
    {Obj(GameMin.o @@ opt) : opt \in SubRecords(GameOptional)}
      \cup {Obj(GameMin.o @@ [year |-> Num(1995)]),
            Obj(GameMin.o @@ GameOptional @@ [parent |-> Str("mk")])}

EventMin ==
    Obj([name |-> Str("Cup"), author |-> Str("biggs"), date |-> Num(1650),
         gameid |-> Str("garou"), link |-> Str("https://cup"), region |-> Str("NA")])

EventSamples ==
    {EventMin,
     Obj(EventMin.o @@ [stream |-> Str("https://live"), prize |-> Num(5)]),
     Obj([name |-> Str("Cup")])}

VideoMaps ==
    {Obj(NoFields),
     Obj([q1 |-> Str("https://video/q1")]),
     Obj([q1 |-> Str("")]),
     Obj([q2 |-> Str("https://video/q2")]),
     Obj([q1 |-> Str("https://video/q1"), q2 |-> Str("https://video/q2")]),
     Obj([q1 |-> Num(1)]),
     Obj(("__proto__" :> Str("https://video/p")) @@ [q1 |-> Str("https://video/q1")]),
     Null}

\* The last: a status that has no string form.
Statuses == {Str("OK"), Str("user not found"), Undef, Obj([toString |-> Str("x")])}

\* {res, <key>: payload}, each of the two left out when undefined.
Envelope(res, key, payload) ==
    Obj((IF res = Undef THEN NoFields ELSE [res |-> res])
          @@ (IF payload = Undef THEN NoFields ELSE (key :> payload)))

ObjectBodies(key, samples) ==
    {Envelope(res, key, payload) : res \in Statuses, payload \in samples \cup {Undef}}
      \cup {Null}

\* {results: list, count: n} with n the list's length or one more.
ResultsOf(list) ==
    {Obj([results |-> Arr(list), count |-> Num(Len(list) + d)]) : d \in {0, 1}}

ListBodies(samples, n) ==
    {Envelope(Str("OK"), "results", r) :
        r \in UNION {ResultsOf(list) : list \in SeqsUpTo(samples, n)}}
      \cup {Envelope(res, "results", r) :
              res \in Statuses \ {Str("OK")},
              r \in {Undef, Obj([results |-> Arr(<<>>), count |-> Num(0)]),
                     Obj([results |-> Str("none")])}}
      \cup {Envelope(Str("OK"), "results", Undef),
            Envelope(Str("OK"), "results", Obj([count |-> Num(0)])),
            Envelope(Str("OK"), "results",
                     Obj([results |-> Obj([length |-> Obj([toString |-> Num(1)])]),
                          count |-> Arr(<<>>)])),
            Null}

\* The JSON bodies a service may answer operation o with, result lists of at
\* most n elements.
Bodies(o, n) ==
    CASE o = "GetUser" -> ObjectBodies("user", UserSamples)
      [] o \in {"GetReplay", "GetReplays", "GetUserReplays"} -> ListBodies(ReplaySamples, n)
      [] o = "GetRankings" -> ListBodies(PlayerSamples, n)
      [] o = "GetGame" -> ObjectBodies("game", GameSamples)
      [] o = "GetEvents" -> ListBodies(EventSamples, n)
      [] o \in {"GetVideoURL", "GetVideoURLs"} -> VideoMaps

\* What the transport may hand back: a failed connection, or an HTTP response
\* of a success or an error status whose body is JSON, is not, or breaks off.
Responses(o) ==
    {NetworkFailure}
      \cup {Http(st, NotJson) : st \in {200, 502}}
      \cup {Http(200, Terminated)}
      \cup {Http(200, Json(b)) : b \in Bodies(o, MaxResults)}
      \cup {Http(st, Json(b)) : st \in {404, 500}, b \in Bodies(o, 1)}

ReplayOptionValues ==
    [gameid |-> Str("umk3"), limit |-> Num(5), offset |-> Num(10), best |-> Bool(TRUE),
     since |-> Num(1658), ranked |-> Bool(TRUE)]

RankingOptionValues ==
    [limit |-> Num(30), offset |-> Num(15), byElo |-> Bool(FALSE), recent |-> Bool(FALSE)]

Without(r, keys) == [k \in DOMAIN r \ keys |-> r[k]]

\* The arguments operation o of generation g can be called with.
Arguments(g, o) ==
    CASE o = "GetUser" -> {[username |-> u] : u \in Usernames}
      [] o = "GetReplay" -> {[quarkid |-> q] : q \in Quarkids}
      [] o = "GetReplays" ->
           IF g = "options"
             THEN {[args |-> r] : r \in SubRecords(ReplayOptionValues)}
             ELSE Supplied(Without(ReplayOptionValues, {"gameid", "ranked"}))
      [] o = "GetUserReplays" ->
           IF g = "options"
             THEN {[username |-> Str("biggs"), args |-> r] :
                     r \in SubRecords(Without(ReplayOptionValues, {"gameid"}))}
             ELSE {[username |-> Str("biggs")] @@ r :
                     r \in Supplied(Without(ReplayOptionValues, {"gameid", "ranked"}))}
      [] o = "GetRankings" ->
           CASE g = "options" ->
                  {[gameid |-> Str("umk3"), args |-> r] : r \in SubRecords(RankingOptionValues)}
             [] g = "positional" ->
                  {[gameid |-> Str("umk3")] @@ r : r \in Supplied(RankingOptionValues)}
             [] OTHER ->
                  {[gameid |-> Str("umk3")] @@ r :
                     r \in Supplied(Without(RankingOptionValues, {"limit", "offset"}))}
      [] o = "GetGame" -> {[gameid |-> Str("umk3")]}
      [] o = "GetEvents" ->
           IF g = "options"
             THEN {[args |-> r] :
                     r \in SubRecords([gameid |-> Str("garou"), limit |-> Num(30),
                                       offset |-> Num(15)])}
             ELSE {[gameid |-> Str("garou")] @@ r :
                     r \in Supplied([limit |-> Num(30), offset |-> Num(15)])}
      [] o = "GetVideoURL" ->
           {[replay |-> r] : r \in Quarkids \cup {Str("constructor"), Str("__defineGetter__")}
                                  \cup {ReplayFull, ReplayCancelled}}
      [] o = "GetVideoURLs" ->
           {[replays |-> Arr(l)] : l \in SeqsUpTo(Quarkids, MaxResults)
                                          \cup SeqsUpTo({ReplayFull, ReplayCancelled}, MaxResults)}

\* Replays a caller can hold and pass to the URL helpers.
HeldReplays == {ReplayFull, ReplayCancelled, ReplayRefetched}

(***************************************************************************)
(* The state machine: one invocation at a time, from the call to the       *)
(* settled promise.                                                        *)
(***************************************************************************)
NoResponse == [kind |-> "none"]

NoOutcome == [kind |-> "none"]

Init ==
    /\ pc = "idle"
    /\ gen = "none"
    /\ op = "none"
    /\ args = NoFields
    /\ sent = <<>>
    /\ response = NoResponse
    /\ outcome = NoOutcome

\* The synchronous part of every network operation: build the request and
\* fetch it; the caller is suspended until the response arrives.  When
\* building the request throws, nothing is fetched and the promise rejects.
Call(g, o, a) ==
    /\ gen' = g
    /\ op' = o
    /\ args' = a
    /\ IF RequestThrows(o, a)
         THEN /\ outcome' = Throw(RequestError(o, a))
              /\ pc' = "settled"
              /\ UNCHANGED <<sent, response>>
         ELSE /\ sent' = Fetch(sent, Endpoint(g, o), RequestInit(g, o, a))
              /\ pc' = "awaiting"
              /\ UNCHANGED <<response, outcome>>

\* A helper that computes its result without any request.
Compute(g, o, a, result) ==
    /\ gen' = g
    /\ op' = o
    /\ args' = a
    /\ outcome' = result
    /\ pc' = "settled"
    /\ UNCHANGED <<sent, response>>

GetUser ==
    /\ pc = "idle"
    /\ \E g \in Generations : \E a \in Arguments(g, "GetUser") : Call(g, "GetUser", a)

GetReplay ==
    /\ pc = "idle"
    /\ \E g \in Generations : \E a \in Arguments(g, "GetReplay") : Call(g, "GetReplay", a)

GetReplays ==
    /\ pc = "idle"
    /\ \E g \in Generations : \E a \in Arguments(g, "GetReplays") : Call(g, "GetReplays", a)

GetUserReplays ==
    /\ pc = "idle"
    /\ \E g \in Generations : \E a \in Arguments(g, "GetUserReplays") :
          Call(g, "GetUserReplays", a)

GetRankings ==
    /\ pc = "idle"
    /\ \E g \in Generations : \E a \in Arguments(g, "GetRankings") : Call(g, "GetRankings", a)

GetGame ==
    /\ pc = "idle"
    /\ \E g \in ZodGenerations : \E a \in Arguments(g, "GetGame") : Call(g, "GetGame", a)

GetEvents ==
    /\ pc = "idle"
    /\ \E g \in ZodGenerations : \E a \in Arguments(g, "GetEvents") : Call(g, "GetEvents", a)

\* The network lookup of the zod generations.
GetVideoURL ==
    /\ pc = "idle"
    /\ \E g \in ZodGenerations : \E a \in Arguments(g, "GetVideoURL") :
          Call(g, "GetVideoURL", a)

\* The string template the root generations export under the same name.
GetVideoURLPure ==
    /\ pc = "idle"
    /\ \E g \in RootGenerations : \E a \in Arguments(g, "GetVideoURL") :
          Compute(g, "GetVideoURL", a, Return(Str(GetVideoURLTemplate(g, a.replay))))

GetVideoURLs ==
    /\ pc = "idle"
    /\ \E g \in ZodGenerations : \E a \in Arguments(g, "GetVideoURLs") :
          Call(g, "GetVideoURLs", a)

GetReplayURLCall ==
    /\ pc = "idle"
    /\ \E g \in Generations : \E r \in HeldReplays :
          Compute(g, "GetReplayURL", [replay |-> r], Return(Str(GetReplayURL(g, r))))

\* await fetch(...) rejects: the connection failed and the operation ends.
FetchFails ==
    /\ pc = "awaiting"
    /\ NetworkFailure \in Responses(op)
    /\ response' = NetworkFailure
    /\ outcome' = Settle(gen, op, args, NetworkFailure)
    /\ pc' = "settled"
    /\ UNCHANGED <<gen, op, args, sent>>

\* await fetch(...) resolves: the status and the headers have arrived, the
\* body has not, and the operation is suspended again on response.json().
Respond ==
    /\ pc = "awaiting"
    /\ \E resp \in Responses(op) :
         /\ resp.kind = "http"
         /\ response' = Http(resp.status, [json |-> FALSE, read |-> "pending"])
    /\ pc' = "reading"
    /\ UNCHANGED <<gen, op, args, sent, outcome>>

\* await response.json() settles and the operation runs to its end.
ReadBody ==
    /\ pc = "reading"
    /\ \E resp \in Responses(op) :
         /\ resp.kind = "http"
         /\ resp.status = response.status
         /\ response' = resp
         /\ outcome' = Settle(gen, op, args, resp)
    /\ pc' = "settled"
    /\ UNCHANGED <<gen, op, args, sent>>

\* The caller takes the result; nothing of the invocation is kept.
Finish ==
    /\ pc = "settled"
    /\ pc' = "idle"
    /\ gen' = "none"
    /\ op' = "none"
    /\ args' = NoFields
    /\ sent' = <<>>
    /\ response' = NoResponse
    /\ outcome' = NoOutcome

Next ==
    \/ GetUser
    \/ GetReplay
    \/ GetReplays
    \/ GetUserReplays
    \/ GetRankings
    \/ GetGame
    \/ GetEvents
    \/ GetVideoURL
    \/ GetVideoURLPure
    \/ GetVideoURLs
    \/ GetReplayURLCall
    \/ FetchFails
    \/ Respond
    \/ ReadBody
    \/ Finish

Spec == Init /\ [][Next]_vars

TypeOK ==
    /\ pc \in {"idle", "awaiting", "reading", "settled"}
    /\ gen \in Generations \cup {"none"}
    /\ outcome.kind \in {"none", "return", "throw"}
    /\ Len(sent) <= 1

(***************************************************************************)
(* Vocabulary of the properties.                                           *)
(***************************************************************************)
\* The one request of the invocation in progress.
Request == sent[1]

\* The invocation has been given its response and has run to its end.
Settled(o) == pc = "settled" /\ op = o

\* The response is an HTTP response whose body is JSON.
HasJson == response.kind = "http" /\ response.body.json

\* The JSON body of the response.
Body == response.body.v

\* The body is an object whose status marker is the success sentinel.
StatusOK == HasJson /\ Body.t = "obj" /\ Field(Body, "res") = Str("OK")

\* The body is a success envelope around {results: [...], count: n}.
ListResponse ==
    /\ StatusOK
    /\ Field(Body, "results").t = "obj"
    /\ Field(Field(Body, "results"), "results").t = "arr"
    /\ Field(Field(Body, "results"), "count").t = "num"

\* The result list and the count of a list response.
ResultList == Field(Field(Body, "results"), "results").a

ResultCount == Field(Field(Body, "results"), "count").n

PrimaryOps ==
    {"GetUser", "GetReplay", "GetReplays", "GetUserReplays", "GetRankings", "GetGame",
     "GetEvents"}

ListOps == {"GetReplays", "GetUserReplays", "GetRankings", "GetEvents"}

\* The value the caller gave optional parameter k, undefined when omitted.
OptionArg(k) ==
    IF gen = "options"
      THEN (IF k \in DOMAIN args.args THEN args.args[k] ELSE Undef)
      ELSE (IF k \in DOMAIN args THEN args[k] ELSE Undef)

\* The defaults the documentation gives for the optional parameters.
DocumentedDefault ==
    [limit |-> Num(15), offset |-> Num(0), best |-> Bool(FALSE), since |-> Num(0),
     ranked |-> Bool(FALSE), byElo |-> Bool(TRUE), recent |-> Bool(TRUE)]

\* The optional parameters with a documented default, per operation.
DefaultedParams(o) ==
    CASE o \in {"GetReplays", "GetUserReplays"} -> {"limit", "offset", "best", "since", "ranked"}
      [] o = "GetRankings" -> {"limit", "offset", "byElo", "recent"}
      [] o = "GetEvents" -> {"limit", "offset"}
      [] OTHER -> {}

\* The parameters a generation fills in with the default when omitted.
FilledIn(g, o) ==
    CASE g = "positional" -> DefaultedParams(o) \ {"ranked"}
      [] g \in RootGenerations /\ o = "GetRankings" -> {"byElo", "recent"}
      [] OTHER -> {}

(***************************************************************************)
(* C1.  As claimed: the request of GetReplays, GetUserReplays, GetRankings *)
(* and GetEvents carries every omitted optional parameter with its         *)
(* documented default value.                                               *)
(***************************************************************************)
C1_DefaultsAlwaysSent ==
    (pc # "idle" /\ op \in ListOps) =>
        \A k \in DefaultedParams(op) :
            OptionArg(k) = Undef => Field(Request.body, k) = DocumentedDefault[k]

(***************************************************************************)
(* C1, amended.  An omitted optional parameter is never sent with a value  *)
(* other than its documented default: the positional generation sends     *)
(* each of its omitted parameters with the default, the options-record     *)
(* generation leaves every omitted parameter out of the request, and the   *)
(* root generations send only byElo and recent of GetRankings.             *)
(***************************************************************************)
C1_OmittedIsDefaultOrAbsent ==
    (pc # "idle" /\ op \in ListOps) =>
        \A k \in DefaultedParams(op) :
            OptionArg(k) = Undef =>
                Field(Request.body, k) =
                    (IF k \in FilledIn(gen, op) THEN DocumentedDefault[k] ELSE Undef)

\* GetReplays({}) of the options generation went out without a limit, and
\* so did the positional GetReplays() with limit 15.
C1_Witness ==
    /\ pc = "awaiting"
    /\ op = "GetReplays"
    /\ OptionArg("limit") = Undef
    /\ \/ gen = "options" /\ "limit" \notin DOMAIN Request.body.o
       \/ gen = "positional" /\ Field(Request.body, "limit") = Num(15)

(***************************************************************************)
(* C2.  A primary-service response whose status marker is a string other   *)
(* than the success sentinel makes the operation fail with an error that   *)
(* carries exactly that status string.                                     *)
(***************************************************************************)
C2_StatusErrorCarriesStatus ==
    (pc = "settled" /\ op \in PrimaryOps /\ HasJson /\ Body.t = "obj"
       /\ Field(Body, "res").t = "str" /\ Field(Body, "res") # Str("OK")) =>
        /\ outcome.kind = "throw"
        /\ "message" \in DOMAIN outcome.error
        /\ outcome.error.message = Field(Body, "res").s

(***************************************************************************)
(* C3.  GetReplay on a success response with an empty result list fails,   *)
(* and whatever GetReplay returns is a well-formed Replay.                 *)
(***************************************************************************)
WellFormedReplay(v) == ZParse(ReplaySchema("options"), v, <<>>).ok

C3_GetReplayNeverMalformed ==
    Settled("GetReplay") =>
        /\ (ListResponse /\ ResultList = <<>>) => outcome.kind = "throw"
        /\ outcome.kind = "return" => WellFormedReplay(outcome.value)

(***************************************************************************)
(* C4.  A value an operation returns conforms to the declared record shape *)
(* in its payload and in every element of its list: one malformed element  *)
(* fails the whole operation.                                              *)
(***************************************************************************)
\* The declared shape of what operation o returns; the root generations
\* declare theirs as interfaces, taken here in the widest schema's form.
DeclaredShape(g, o) ==
    LET z == IF g \in ZodGenerations THEN g ELSE "options"
    IN  CASE o = "GetUser" -> UserSchema
          [] o = "GetReplay" -> ReplaySchema(z)
          [] o \in {"GetReplays", "GetUserReplays"} -> ZArray(ReplaySchema(z))
          [] o = "GetRankings" -> ZArray(PlayerSchema)
          [] o = "GetGame" -> GameSchema(z)
          [] o = "GetEvents" -> ZArray(EventSchema)

Conforms(schema, v) == ZParse(schema, v, <<>>).ok

C4_ReturnedValueConforms ==
    (pc = "settled" /\ op \in PrimaryOps /\ outcome.kind = "return") =>
        Conforms(DeclaredShape(gen, op), outcome.value)

(***************************************************************************)
(* C5.  Every invocation of a network operation issues exactly one         *)
(* outbound request, to the operation's endpoint, on every path; when the  *)
(* transport fails (no connection, a non-2xx status, a body that is not    *)
(* JSON) or the validation fails (the body does not conform to the         *)
(* response's declared shape) the invocation ends failed, still with that  *)
(* one request.                                                            *)
(***************************************************************************)
TransportFails == response.kind = "neterr" \/ ~response.body.json

Non2xx == response.kind = "http" /\ ~(response.status \in 200..299)

\* The schema the zod generations parse the body of operation o with.
BodySchema(g, o) ==
    CASE o = "GetUser" -> UserResponseSchema
      [] o \in {"GetReplay", "GetReplays", "GetUserReplays"} -> ReplayResultsResponseSchema(g)
      [] o = "GetRankings" -> PlayerResultsResponseSchema
      [] o = "GetGame" -> GameResponseSchema(g)
      [] o = "GetEvents" -> EventResultsResponseSchema
      [] o \in {"GetVideoURL", "GetVideoURLs"} -> VideoURLResponse

\* The body does not have the declared shape of the response; the root
\* generations declare theirs as interfaces, taken here in the widest
\* schema's form.
ValidationFails ==
    /\ HasJson
    /\ ~Conforms(BodySchema(IF gen \in ZodGenerations THEN gen ELSE "options", op), Body)

C5_ExactlyOneRequest ==
    (pc # "idle" /\ op \in NetworkOps(gen)) =>
        /\ Len(sent) = 1
        /\ Request.url = Endpoint(gen, op)
        /\ (pc = "settled" /\ (TransportFails \/ Non2xx \/ ValidationFails)) =>
               outcome.kind = "throw"

(***************************************************************************)
(* C6.  A transport call that fails at the network level, or whose         *)
(* response has a non-2xx status, or whose body is not JSON, makes the     *)
(* operation fail and return no value, whatever the body holds.            *)
(***************************************************************************)
C6_TransportErrorFails ==
    (pc = "settled" /\ op \in NetworkOps(gen) /\ (TransportFails \/ Non2xx)) =>
        outcome.kind = "throw"

(***************************************************************************)
(* C7.  In the generations whose documentation states the count check,     *)
(* GetReplays, GetUserReplays and GetRankings on a success response fail   *)
(* with a RangeError exactly when results.count differs from the number of *)
(* results, and return the list when the two are equal.                    *)
(***************************************************************************)
C7_RangeErrorIffCountDiffers ==
    (pc = "settled" /\ gen \in RootGenerations
       /\ op \in {"GetReplays", "GetUserReplays", "GetRankings"} /\ ListResponse) =>
        /\ outcome = Throw(RangeError) <=> ResultCount # Len(ResultList)
        /\ ResultCount = Len(ResultList) => outcome = Return(Arr(ResultList))

(***************************************************************************)
(* C8.  A Player is accepted with its country as a bare string and with    *)
(* its country as an {iso_code, full_name} object: the two forms of one    *)
(* player have the same validation outcome, which is that of the player's  *)
(* other fields, and an accepted country comes back in the shape it came.  *)
(***************************************************************************)
\* A country in one of the two shapes the service emits.
IsCountry(c) ==
    \/ c.t = "str"
    \/ c.t = "obj" /\ Field(c, "iso_code").t = "str" /\ Field(c, "full_name").t = "str"

\* The same player with its country in the other shape.
OtherCountryShape(p) ==
    LET c == Field(p, "country")
        d == IF c.t = "str"
               THEN Obj([iso_code |-> c, full_name |-> c])
               ELSE Field(c, "iso_code")
    IN  Obj([k \in DOMAIN p.o |-> IF k = "country" THEN d ELSE p.o[k]])

\* The fields of a player other than its country are valid.
OtherFieldsValid(p) ==
    ZParse(ZObject([k \in DOMAIN PlayerSchema.shape \ {"country"} |-> PlayerSchema.shape[k]]),
           p, <<>>).ok

\* The country of a validated player equals the one that arrived.
CountryKept(in, out) ==
    LET c == Field(in, "country")
        d == Field(out, "country")
    IN  IF c.t = "str"
          THEN d = c
          ELSE /\ d.t = "obj"
               /\ Field(d, "iso_code") = Field(c, "iso_code")
               /\ Field(d, "full_name") = Field(c, "full_name")

PlayerCountryEitherShape(p) ==
    LET q == OtherCountryShape(p)
        a == ZParse(PlayerSchema, p, <<>>)
        b == ZParse(PlayerSchema, q, <<>>)
    IN  /\ a.ok = OtherFieldsValid(p)
        /\ b.ok = a.ok
        /\ a.ok => CountryKept(p, a.v) /\ CountryKept(q, b.v)

C8_CountryEitherShape ==
    (pc = "settled" /\ gen \in ZodGenerations /\ op = "GetRankings" /\ ListResponse) =>
        \A i \in 1..Len(ResultList) :
            (ResultList[i].t = "obj" /\ IsCountry(Field(ResultList[i], "country"))) =>
                /\ PlayerCountryEitherShape(ResultList[i])
                /\ outcome.kind = "return" => CountryKept(ResultList[i], outcome.value.a[i])

\* GetRankings returned a list holding a player of each country shape.
C8_Witness ==
    /\ pc = "settled"
    /\ gen \in ZodGenerations
    /\ op = "GetRankings"
    /\ ListResponse
    /\ outcome.kind = "return"
    /\ \E i, j \in 1..Len(outcome.value.a) :
          /\ Field(ResultList[i], "country").t = "str"
          /\ Field(outcome.value.a[i], "country").t = "str"
          /\ Field(ResultList[j], "country").t = "obj"
          /\ Field(outcome.value.a[j], "country").t = "obj"

(***************************************************************************)
(* C9.  As claimed: a Replay that arrives with all its optional fields and *)
(* is accepted comes out of validation equal to what arrived, every field  *)
(* of every player included.                                               *)
(***************************************************************************)
ReplayOptionalFields == {"num_matches", "ranked", "replay_file", "realtime_views", "saved_views"}

AllOptionalPresent(r) == r.t = "obj" /\ ReplayOptionalFields \subseteq DOMAIN r.o

\* The replays that arrived and the replays the operation returned.
ArrivedReplays == IF op = "GetReplay" THEN <<ResultList[1]>> ELSE ResultList

ReturnedReplays == IF op = "GetReplay" THEN <<outcome.value>> ELSE outcome.value.a

ReplayReturned ==
    /\ pc = "settled"
    /\ gen \in ZodGenerations
    /\ op \in {"GetReplay", "GetReplays", "GetUserReplays"}
    /\ outcome.kind = "return"

C9_ReplayUnchanged ==
    ReplayReturned =>
        \A i \in 1..Len(ReturnedReplays) :
            AllOptionalPresent(ArrivedReplays[i]) => ReturnedReplays[i] = ArrivedReplays[i]

(***************************************************************************)
(* C9, amended.  Such a Replay comes out of validation with every field    *)
(* the schemas declare unchanged -- the replay's own fields, and of every  *)
(* player the name, country code and name, rank, score and the stats of    *)
(* every game but one keyed "__proto__" -- and with no other key: whatever *)
(* the schemas do not declare, and a stats entry keyed "__proto__", is     *)
(* dropped.                                                                *)
(***************************************************************************)
ReplayFields ==
    {"quarkid", "channelname", "date", "duration", "emulator", "gameid", "num_matches",
     "ranked", "replay_file", "realtime_views", "saved_views"}

GameInfoFields == {"rank", "num_matches", "last_match", "time_played"}

SameFields(keys, a, b) == \A k \in keys : Field(a, k) = Field(b, k)

\* Every per-game entry of x but one keyed "__proto__" is in y, with its
\* declared fields as they are in x and no other.
SameGameInfo(x, y) ==
    IF x = Undef
      THEN y = Undef
      ELSE /\ y.t = "obj"
           /\ DOMAIN y.o = DOMAIN x.o \ {"__proto__"}
           /\ \A k \in DOMAIN y.o :
                 /\ SameFields(GameInfoFields, x.o[k], y.o[k])
                 /\ DOMAIN y.o[k].o \subseteq GameInfoFields

SamePlayer(p, q) ==
    /\ SameFields({"name", "rank", "score"}, p, q)
    /\ CountryKept(p, q)
    /\ SameGameInfo(Field(p, "gameinfo"), Field(q, "gameinfo"))
    /\ DOMAIN q.o \subseteq {"name", "country", "rank", "score", "gameinfo"}

SameReplay(r, s) ==
    /\ SameFields(ReplayFields, r, s)
    /\ DOMAIN s.o \subseteq ReplayFields \cup {"players"}
    /\ Len(Field(s, "players").a) = Len(Field(r, "players").a)
    /\ \A j \in 1..Len(Field(r, "players").a) :
          SamePlayer(Field(r, "players").a[j], Field(s, "players").a[j])

C9_DeclaredFieldsUnchanged ==
    ReplayReturned =>
        \A i \in 1..Len(ReturnedReplays) :
            AllOptionalPresent(ArrivedReplays[i]) =>
                SameReplay(ArrivedReplays[i], ReturnedReplays[i])

\* A replay with every optional field, two players and an undeclared key
\* in a player's country was returned without that key, and with it a
\* replay whose player's statistics arrived with a game id "__proto__" and
\* were returned without that entry.
C9_Witness ==
    /\ ReplayReturned
    /\ \E i \in 1..Len(ReturnedReplays) :
          /\ AllOptionalPresent(ArrivedReplays[i])
          /\ ReturnedReplays[i] # ArrivedReplays[i]
          /\ Len(Field(ReturnedReplays[i], "players").a) = 2
    /\ \E i \in 1..Len(ReturnedReplays) :
          /\ AllOptionalPresent(ArrivedReplays[i])
          /\ LET arrived == Field(Field(ArrivedReplays[i], "players").a[1], "gameinfo")
                 returned == Field(Field(ReturnedReplays[i], "players").a[1], "gameinfo")
             IN  /\ arrived.t = "obj"
                 /\ "__proto__" \in DOMAIN arrived.o
                 /\ DOMAIN returned.o = {"umk3"}

(***************************************************************************)
(* C10.  GetReplayURL returns the replay base URL followed by the replay's *)
(* emulator, "/", its game id, "/" and its challenge id, and nothing else; *)
(* every generation returns the same string for the same replay.           *)
(***************************************************************************)
C10_ReplayURL ==
    Settled("GetReplayURL") =>
        /\ outcome =
              Return(Str("https://replay.fightcade.com/" \o args.replay.o.emulator.s \o "/"
                           \o args.replay.o.gameid.s \o "/" \o args.replay.o.quarkid.s))
        /\ \A g \in Generations : Str(GetReplayURL(g, args.replay)) = outcome.value

\* GetReplayURL returned the link of replay q1 of umk3 on fbneo.
C10_Witness ==
    /\ Settled("GetReplayURL")
    /\ outcome = Return(Str("https://replay.fightcade.com/fbneo/umk3/q1"))

(***************************************************************************)
(* C11.  GetReplayURL issues no request and awaits no response, and its    *)
(* result is decided by the replay's emulator, gameid and quarkid alone:   *)
(* whatever ran before, a call on any replay that agrees on the three      *)
(* returns the same string.                                                *)
(***************************************************************************)
LinkFields == {"emulator", "gameid", "quarkid"}

C11_ReplayURLPure ==
    Settled("GetReplayURL") =>
        /\ sent = <<>>
        /\ response = NoResponse
        /\ outcome.kind = "return"
        /\ \A r \in HeldReplays :
              SameFields(LinkFields, r, args.replay) =>
                  \A g \in Generations : Return(Str(GetReplayURL(g, r))) = outcome

\* The link of q1 was computed from the refetched replay, which differs from
\* the first in its channel name, date, players and views.
C11_Witness ==
    /\ Settled("GetReplayURL")
    /\ args.replay = ReplayRefetched
    /\ ReplayFull # ReplayRefetched
    /\ outcome = Return(Str(GetReplayURL(gen, ReplayFull)))
    /\ sent = <<>>

(***************************************************************************)
(* C12.  GetVideoURLs returns exactly the id-to-URL map the secondary      *)
(* service replied with: a requested id missing from the reply is absent   *)
(* from the result without any error, and an empty reply gives an empty    *)
(* map.                                                                    *)
(***************************************************************************)
\* The reply is a map from ids to strings.
IsVideoMap(v) == v.t = "obj" /\ \A k \in DOMAIN v.o : v.o[k].t = "str"

\* The ids the caller asked GetVideoURLs for.
RequestedIds == {QuarkidOf(args.replays.a[i]).s : i \in 1..Len(args.replays.a)}

C12_VideoURLsIsTheReply ==
    (Settled("GetVideoURLs") /\ HasJson /\ IsVideoMap(Body)) =>
        /\ outcome = Return(Body)
        /\ \A id \in RequestedIds \ DOMAIN Body.o : id \notin DOMAIN outcome.value.o

(***************************************************************************)
(* C12, amended.  GetVideoURLs returns the map the secondary service       *)
(* replied with, every key of it but "__proto__", which the validation     *)
(* never copies; a requested id that is missing from the reply is absent   *)
(* from the result and causes no error, and an empty reply yields an empty *)
(* map.                                                                    *)
(***************************************************************************)
\* The object v without the keys in dropped.
WithoutKeys(v, dropped) == Obj([k \in DOMAIN v.o \ dropped |-> v.o[k]])

C12_VideoURLsIsTheReplyButProto ==
    (Settled("GetVideoURLs") /\ HasJson /\ IsVideoMap(Body)) =>
        /\ outcome = Return(WithoutKeys(Body, {"__proto__"}))
        /\ \A id \in RequestedIds \ DOMAIN Body.o : id \notin DOMAIN outcome.value.o
        /\ Body = Obj(NoFields) => outcome = Return(Obj(NoFields))

\* Two ids were asked for and the reply, returned as it is, has one of them.
C12_Witness ==
    /\ Settled("GetVideoURLs")
    /\ HasJson
    /\ RequestedIds = {"q1", "q2"}
    /\ Body = Obj([q1 |-> Str("https://video/q1")])
    /\ outcome = Return(Body)

(***************************************************************************)
(* C13.  The network GetVideoURL fails when the requested id is absent     *)
(* from the map the secondary service returns, and returns the mapped URL  *)
(* when the id is present in it.                                           *)
(***************************************************************************)
C13_VideoURLIffPresent ==
    (Settled("GetVideoURL") /\ gen \in ZodGenerations /\ HasJson /\ IsVideoMap(Body)) =>
        LET id == QuarkidOf(args.replay).s
        IN  IF id \in DOMAIN Body.o
              THEN outcome = Return(Body.o[id])
              ELSE outcome.kind = "throw"

(***************************************************************************)
(* C14.  GetUser on a success response whose user payload has name, ranked *)
(* and date and none of the optional fields returns, without error, a User *)
(* equal to the payload.                                                   *)
(***************************************************************************)
\* A user payload of the three required fields only, each of its type.
MinimalUser(u) ==
    /\ u.t = "obj"
    /\ DOMAIN u.o = {"name", "ranked", "date"}
    /\ u.o.name.t = "str"
    /\ u.o.ranked.t = "bool"
    /\ u.o.date.t = "num"

C14_MinimalUserReturned ==
    (Settled("GetUser") /\ StatusOK /\ MinimalUser(Field(Body, "user"))) =>
        outcome = Return(Field(Body, "user"))

\* GetUser('biggs') of the options generation returned the minimal user.
C14_Witness ==
    /\ Settled("GetUser")
    /\ gen = "options"
    /\ StatusOK
    /\ MinimalUser(Field(Body, "user"))
    /\ outcome.kind = "return"
    /\ Field(outcome.value, "name") = Str("biggs")

(***************************************************************************)
(* C15.  As claimed: the request of each primary-service operation holds   *)
(* the operation's value in a discriminator field named `op`, next to the  *)
(* required argument under its documented name.                            *)
(***************************************************************************)
\* The value that selects the server-side operation.
Discriminator(o) ==
    CASE o = "GetUser" -> Str("getuser")
      [] o \in {"GetReplay", "GetReplays", "GetUserReplays"} -> Str("searchquarks")
      [] o = "GetRankings" -> Str("searchrankings")
      [] o = "GetGame" -> Str("gameinfo")
      [] o = "GetEvents" -> Str("searchevents")

\* The required arguments of each operation, by their documented names.
RequiredArgs(o) ==
    CASE o \in {"GetUser", "GetUserReplays"} -> {"username"}
      [] o = "GetReplay" -> {"quarkid"}
      [] o \in {"GetRankings", "GetGame"} -> {"gameid"}
      [] OTHER -> {}

RequestCarries(field) ==
    (pc # "idle" /\ op \in PrimaryOps) =>
        /\ Field(Request.body, field) = Discriminator(op)
        /\ \A k \in RequiredArgs(op) :
              args[k].t = "str" /\ Field(Request.body, k) = args[k]

C15_DiscriminatorOp == RequestCarries("op")

(***************************************************************************)
(* C15, amended.  The discriminator field is named `req`: the request of   *)
(* each primary-service operation holds the operation's value in `req`     *)
(* (and has no `op` field), next to the required argument under its        *)
(* documented name.                                                        *)
(***************************************************************************)
C15_DiscriminatorReq ==
    /\ RequestCarries("req")
    /\ (pc # "idle" /\ op \in PrimaryOps) => "op" \notin DOMAIN Request.body.o

\* GetGame('umk3') went out as {req: 'gameinfo', gameid: 'umk3'}.
C15_Witness ==
    /\ pc = "awaiting"
    /\ op = "GetGame"
    /\ Request.body = Obj([req |-> Str("gameinfo"), gameid |-> Str("umk3")])

(***************************************************************************)
(* C16.  The request of GetUserReplays(u, o) is the request of             *)
(* GetReplays(o) with the single field username = u added, and on the same *)
(* response GetUserReplays(u, o) and GetReplays(o) have the same result.   *)
(***************************************************************************)
\* What the caller of GetUserReplays passed besides the username.
OptionsOnly == Without(args, {"username"})

\* The request GetReplays sends for those options.
GetReplaysInit == RequestInit(gen, "GetReplays", OptionsOnly)

C16_UserReplaysIsReplaysPlusUsername ==
    (pc # "idle" /\ op = "GetUserReplays") =>
        /\ OptionsOnly \in Arguments(gen, "GetReplays")
        /\ "username" \notin DOMAIN GetReplaysInit.body.o
        /\ Request.body = Obj(("username" :> args.username) @@ GetReplaysInit.body.o)
        /\ Request.url = Endpoint(gen, "GetReplays")
        /\ Request.method = GetReplaysInit.method
        /\ Request.headers = GetReplaysInit.headers
        /\ pc = "settled" => outcome = Settle(gen, "GetReplays", OptionsOnly, response)

\* GetUserReplays('biggs', {limit: 5, ...}) returned a list of replays.
C16_Witness ==
    /\ Settled("GetUserReplays")
    /\ gen = "options"
    /\ "limit" \in DOMAIN args.args
    /\ Field(Request.body, "limit") = Num(5)
    /\ Field(Request.body, "username") = Str("biggs")
    /\ outcome.kind = "return"
    /\ Len(outcome.value.a) > 0

(***************************************************************************)
(* C17.  GetVideoURL and GetVideoURLs take bare challenge ids and Replay   *)
(* objects alike: the ids list of the request has one entry per input, in  *)
(* input order, the input itself when it is a string and its quarkid when  *)
(* it is a Replay, so a call with Replays sends the request of the call    *)
(* with their quarkids.                                                    *)
(***************************************************************************)
VideoOps == {"GetVideoURL", "GetVideoURLs"}

\* The inputs of the video lookup in progress, in the order given.
VideoInputs == IF op = "GetVideoURL" THEN <<args.replay>> ELSE args.replays.a

\* The challenge id each input stands for.
IdsOfInputs ==
    [i \in 1..Len(VideoInputs) |->
        IF VideoInputs[i].t = "str" THEN VideoInputs[i] ELSE VideoInputs[i].o.quarkid]

\* The arguments of the same call made with the bare ids.
ArgsByIds ==
    IF op = "GetVideoURL" THEN [replay |-> IdsOfInputs[1]] ELSE [replays |-> Arr(IdsOfInputs)]

C17_IdsOrReplays ==
    (pc # "idle" /\ gen \in ZodGenerations /\ op \in VideoOps) =>
        /\ Request.body = Obj([ids |-> Arr(IdsOfInputs)])
        /\ \A i \in 1..Len(IdsOfInputs) : IdsOfInputs[i].t = "str"
        /\ sent = Fetch(<<>>, Endpoint(gen, op), RequestInit(gen, op, ArgsByIds))

\* GetVideoURLs of two Replay objects asked for their two ids, in order.
C17_Witness ==
    /\ pc = "awaiting"
    /\ op = "GetVideoURLs"
    /\ args.replays = Arr(<<ReplayCancelled, ReplayFull>>)
    /\ Request.body = Obj([ids |-> Arr(<<Str("q2"), Str("q1")>>)])

(***************************************************************************)
(* C18.  A Replay is accepted by validation in each of the three           *)
(* documented shapes of its ranked indicator -- a number, the sentinel     *)
(* 'cancelled', the field absent -- so a list of replays that are valid in *)
(* their other fields is returned.                                         *)
(***************************************************************************)
DocumentedRanked(r) ==
    LET v == Field(r, "ranked")
    IN  v = Undef \/ v.t = "num" \/ v = Str("cancelled")

\* The fields of a replay other than ranked are valid in generation g.
ReplayValidButRanked(g, r) ==
    ZParse(ZObject(Without(ReplaySchema(g).shape, {"ranked"})), r, <<>>).ok

C18_RankedShapesAccepted ==
    (pc = "settled" /\ gen \in ZodGenerations /\ op \in {"GetReplays", "GetUserReplays"}
       /\ ListResponse) =>
        \A i \in 1..Len(ResultList) :
            (ResultList[i].t = "obj" /\ DocumentedRanked(ResultList[i])
               /\ ReplayValidButRanked(gen, ResultList[i])) =>
                /\ ZParse(ReplaySchema(gen), ResultList[i], <<>>).ok
                /\ Len(ResultList) = 1 => outcome.kind = "return"

(***************************************************************************)
(* C19.  A rank in a Player or in per-game stats is accepted by validation *)
(* exactly when it is absent, null or an integer from 0 to 6, and the      *)
(* exported Rank table gives every ordinal n in 0..6 the name the          *)
(* validator's enumeration gives n (0 = Unranked, 1 = E, ..., 6 = S).      *)
(***************************************************************************)
RankAccepted(r) == r = Undef \/ r = Null \/ (r.t = "num" /\ r.n \in 0..6)

\* The name the validator's enumeration gives ordinal n.
RankName(n) == CHOOSE k \in DOMAIN RankEnumSchema.enum : RankEnumSchema.enum[k] = n

\* Schema s accepts v, whose other fields are valid, exactly when it should.
RankDecides(s, v) ==
    (v.t = "obj" /\ ZParse(ZObject(Without(s.shape, {"rank"})), v, <<>>).ok) =>
        (ZParse(s, v, <<>>).ok <=> RankAccepted(Field(v, "rank")))

\* The per-game stats of the user payload, none when there are none.
UserGameInfo ==
    LET gi == Field(Field(Body, "user"), "gameinfo")
    IN  IF gi.t = "obj" THEN gi.o ELSE NoFields

C19_RankOrdinals ==
    /\ (pc = "settled" /\ gen \in ZodGenerations /\ op = "GetRankings" /\ ListResponse) =>
          \A i \in 1..Len(ResultList) : RankDecides(PlayerSchema, ResultList[i])
    /\ (pc = "settled" /\ gen \in ZodGenerations /\ op = "GetUser" /\ StatusOK
          /\ Field(Body, "user").t = "obj") =>
          \A k \in DOMAIN UserGameInfo : RankDecides(GameInfoSchema.valueType, UserGameInfo[k])
    /\ pc # "idle" =>
          \A n \in 0..6 : n \in DOMAIN Rank(gen) /\ Rank(gen)[n] = RankName(n)

(***************************************************************************)
(* C20.  GetGame accepts and returns a Game payload that has gameid, name, *)
(* emulator, available_for, system and ranked and leaves out any subset of *)
(* the optional romof, year, publisher, training and genres.               *)
(***************************************************************************)
GameRequiredTypes ==
    [gameid |-> "str", name |-> "str", emulator |-> "str", available_for |-> "num",
     system |-> "str", ranked |-> "bool"]

GameOptionalTypes ==
    [romof |-> "str", year |-> "str", publisher |-> "str", training |-> "bool",
     genres |-> "arr"]

\* A game with every required field, some of the optional ones, nothing else,
\* each field of its type.
DocumentedGame(v) ==
    /\ v.t = "obj"
    /\ DOMAIN GameRequiredTypes \subseteq DOMAIN v.o
    /\ DOMAIN v.o \subseteq DOMAIN GameRequiredTypes \cup DOMAIN GameOptionalTypes
    /\ \A k \in DOMAIN v.o : v.o[k].t = (GameRequiredTypes @@ GameOptionalTypes)[k]
    /\ "genres" \in DOMAIN v.o => \A i \in 1..Len(v.o.genres.a) : v.o.genres.a[i].t = "str"

C20_GameOptionalFields ==
    (Settled("GetGame") /\ StatusOK /\ DocumentedGame(Field(Body, "game"))) =>
        outcome = Return(Field(Body, "game"))

(***************************************************************************)
(* Concurrent invocations.  A caller may start an operation while others   *)
(* are suspended on their fetch.  In this second specification every       *)
(* variable holds, for each invocation, what it holds for the single       *)
(* invocation of Spec: an async function keeps its request, its response   *)
(* and its result in locals of its own activation, and the module has no   *)
(* variable besides the constant URL table.  Responses arrive in any      *)
(* order.                                                                  *)
(***************************************************************************)
\* The number of invocations that may be in progress together.
MaxInvocations == 2

Invocations == 1..MaxInvocations

\* The calls made concurrently: operations whose result does not depend on
\* the arguments (GetUser) and one whose result does (GetVideoURL).
ConcurrentCalls ==
    {[gen |-> g, op |-> "GetUser", args |-> [username |-> u]] :
        g \in {"options", "overload"}, u \in Usernames}
      \cup {[gen |-> "options", op |-> "GetVideoURL", args |-> [replay |-> q]] : q \in Quarkids}

\* The responses that may come back to a concurrent call of operation o.
ConcurrentResponses(o) ==
    IF o = "GetUser"
      THEN {NetworkFailure,
            Http(200, Terminated),
            Http(200, Json(Envelope(Str("OK"), "user", UserMin))),
            Http(200, Json(Envelope(Str("user not found"), "user", Undef)))}
      ELSE {Http(200, NotJson),
            Http(200, Json(Obj([q1 |-> Str("https://video/q1")]))),
            Http(200, Json(Obj([q1 |-> Str("https://video/q1"),
                                q2 |-> Str("https://video/q2")])))}

InitConcurrent ==
    /\ pc = [i \in Invocations |-> "idle"]
    /\ gen = [i \in Invocations |-> "none"]
    /\ op = [i \in Invocations |-> "none"]
    /\ args = [i \in Invocations |-> NoFields]
    /\ sent = [i \in Invocations |-> <<>>]
    /\ response = [i \in Invocations |-> NoResponse]
    /\ outcome = [i \in Invocations |-> NoOutcome]

\* An activation that reads the arguments from a buffer which a concurrent
\* invocation of the same operation has overwritten: C21 is what tells the
\* two apart.
SettleShared(i, resp) ==
    LET others == {j \in Invocations \ {i} : gen[j] = gen[i] /\ op[j] = op[i]}
    IN  IF others = {}
          THEN Settle(gen[i], op[i], args[i], resp)
          ELSE Settle(gen[i], op[i], args[CHOOSE j \in others : TRUE], resp)

\* The activation settles on the response to its own request, with its own
\* arguments.
SettleOwn(i, resp) == Settle(gen[i], op[i], args[i], resp)

\* Invocation i starts: it builds its request and fetches it.
Start(i) ==
    /\ pc[i] = "idle"
    /\ \E c \in ConcurrentCalls :
          /\ gen' = [gen EXCEPT ![i] = c.gen]
          /\ op' = [op EXCEPT ![i] = c.op]
          /\ args' = [args EXCEPT ![i] = c.args]
          /\ IF RequestThrows(c.op, c.args)
               THEN /\ outcome' = [outcome EXCEPT ![i] = Throw(RequestError(c.op, c.args))]
                    /\ pc' = [pc EXCEPT ![i] = "settled"]
                    /\ UNCHANGED <<sent, response>>
               ELSE /\ sent' = [sent EXCEPT ![i] = Fetch(sent[i], Endpoint(c.gen, c.op),
                                                          RequestInit(c.gen, c.op, c.args))]
                    /\ pc' = [pc EXCEPT ![i] = "awaiting"]
                    /\ UNCHANGED <<response, outcome>>

\* The fetch of invocation i rejects and i ends.
Reject(i) ==
    /\ pc[i] = "awaiting"
    /\ NetworkFailure \in ConcurrentResponses(op[i])
    /\ response' = [response EXCEPT ![i] = NetworkFailure]
    /\ outcome' = [outcome EXCEPT ![i] = SettleOwn(i, NetworkFailure)]
    /\ pc' = [pc EXCEPT ![i] = "settled"]
    /\ UNCHANGED <<gen, op, args, sent>>

\* The status and headers of the response to the request of invocation i
\* arrive: its fetch resolves and i is suspended on response.json().
Arrive(i) ==
    /\ pc[i] = "awaiting"
    /\ \E resp \in ConcurrentResponses(op[i]) :
          /\ resp.kind = "http"
          /\ response' = [response EXCEPT ![i] = Http(resp.status, [json |-> FALSE, read |-> "pending"])]
    /\ pc' = [pc EXCEPT ![i] = "reading"]
    /\ UNCHANGED <<gen, op, args, sent, outcome>>

\* The body of the response of invocation i has been read and i runs to its
\* end.
Read(i) ==
    /\ pc[i] = "reading"
    /\ \E resp \in ConcurrentResponses(op[i]) :
          /\ resp.kind = "http"
          /\ resp.status = response[i].status
          /\ response' = [response EXCEPT ![i] = resp]
          /\ outcome' = [outcome EXCEPT ![i] = SettleOwn(i, resp)]
    /\ pc' = [pc EXCEPT ![i] = "settled"]
    /\ UNCHANGED <<gen, op, args, sent>>

\* The caller takes the result of invocation i; nothing of it is kept.
Take(i) ==
    /\ pc[i] = "settled"
    /\ pc' = [pc EXCEPT ![i] = "idle"]
    /\ gen' = [gen EXCEPT ![i] = "none"]
    /\ op' = [op EXCEPT ![i] = "none"]
    /\ args' = [args EXCEPT ![i] = NoFields]
    /\ sent' = [sent EXCEPT ![i] = <<>>]
    /\ response' = [response EXCEPT ![i] = NoResponse]
    /\ outcome' = [outcome EXCEPT ![i] = NoOutcome]

NextConcurrent ==
    \/ \E i \in Invocations : Start(i)
    \/ \E i \in Invocations : Reject(i)
    \/ \E i \in Invocations : Arrive(i)
    \/ \E i \in Invocations : Read(i)
    \/ \E i \in Invocations : Take(i)

SpecConcurrent == InitConcurrent /\ [][NextConcurrent]_vars

(***************************************************************************)
(* C21.  In every interleaving of concurrent invocations, the request and  *)
(* the outcome of each invocation are those its own arguments and the      *)
(* response to its own request decide, every request goes to the constant  *)
(* endpoint of its operation, and a step of one invocation changes nothing *)
(* of any other.                                                           *)
(***************************************************************************)
\* What invocation i holds.
Activation(i) == <<pc[i], gen[i], op[i], args[i], sent[i], response[i], outcome[i]>>

OwnRequestOwnOutcome ==
    \A i \in Invocations :
        pc[i] # "idle" =>
            /\ sent[i] = Fetch(<<>>, Endpoint(gen[i], op[i]), RequestInit(gen[i], op[i], args[i]))
            /\ sent[i][1].url \in {URL(gen[i])[k] : k \in DOMAIN URL(gen[i])}
            /\ pc[i] = "settled" => outcome[i] = Settle(gen[i], op[i], args[i], response[i])

OthersUntouched ==
    \A i \in Invocations : pc'[i] = pc[i] => Activation(i)' = Activation(i)

C21_InvocationsIndependent == [](OwnRequestOwnOutcome) /\ [][OthersUntouched]_vars

\* Two video lookups overlapped: the same reply came back to both, and each
\* settled by its own id, one with the URL and one with the error.
C21_Witness ==
    /\ \A i \in Invocations : pc[i] = "settled" /\ op[i] = "GetVideoURL"
    /\ response[1] = response[2]
    /\ outcome[1].kind = "return"
    /\ outcome[2].kind = "throw"
    /\ outcome[2].error.name = "Error"

\* Everything a caller can reach through the exports of generation g.
Offered(g) == Exports(g) \cup UNION {Members(g, name) : name \in Exports(g)}

(***************************************************************************)
(* C22.  As claimed: some export of the library takes a Player's country   *)
(* in either shape, a string or a Country object.                          *)
(***************************************************************************)
C22_CountryHelperOffered ==
    gen \in Generations =>
        \E f \in Offered(gen) : {"string", "Country"} \subseteq ParameterTypes(gen, f)

(***************************************************************************)
(* C22, amended.  No export takes a Country.  A Player that a validated    *)
(* operation returns carries its country as a string or as an object with  *)
(* a string full_name, as it arrived, so the type test of the              *)
(* documentation (the string itself, else full_name) yields its display    *)
(* string.                                                                 *)
(***************************************************************************)
RankingReturned ==
    Settled("GetRankings") /\ gen \in ZodGenerations /\ outcome.kind = "return"

C22_DisplayStringByTypeTest ==
    /\ gen \in Generations =>
           \A f \in Offered(gen) : "Country" \notin ParameterTypes(gen, f)
    /\ RankingReturned =>
           \A i \in 1..Len(outcome.value.a) :
               LET country == Field(outcome.value.a[i], "country")
               IN  /\ DisplayString(country).t = "str"
                   /\ DisplayString(country) = DisplayString(Field(ResultList[i], "country"))

\* Rankings came back with a country of each shape.
C22_Witness ==
    /\ RankingReturned
    /\ \E i, j \in 1..Len(outcome.value.a) :
           /\ Field(outcome.value.a[i], "country").t = "str"
           /\ Field(outcome.value.a[j], "country").t = "obj"

(***************************************************************************)
(* C23.  The GetVideoURL of the two root generations issues no request and *)
(* returns the fixed video base URL followed by the challenge id; called   *)
(* with a Replay it returns what it returns for that replay's quarkid.     *)
(***************************************************************************)
VideoURLComputed == Settled("GetVideoURL") /\ gen \in RootGenerations

C23_VideoURLTemplate ==
    VideoURLComputed =>
        /\ sent = <<>>
        /\ response = NoResponse
        /\ outcome = Return(Str("https://fightcadevids.com/video/" \o QuarkidOf(args.replay).s))
        /\ args.replay.t = "obj" =>
               outcome = Return(Str(GetVideoURLTemplate(gen, Field(args.replay, "quarkid"))))

\* The template was applied to a whole Replay, the one with challenge id q1.
C23_Witness ==
    /\ VideoURLComputed
    /\ args.replay = ReplayFull
    /\ outcome = Return(Str("https://fightcadevids.com/video/q1"))

(***************************************************************************)
(* C24.  A primary-service response whose status is not the success        *)
(* sentinel fails on the status alone: the outcome is the one the bare     *)
(* status decides, whatever the payload, and the error is not a schema     *)
(* error about the payload.                                                *)
(***************************************************************************)
StatusNotOK ==
    /\ pc = "settled"
    /\ op \in PrimaryOps
    /\ HasJson
    /\ Body.t = "obj"
    /\ Field(Body, "res").t = "str"
    /\ Field(Body, "res") # Str("OK")

\* The response that carries the status of this one and nothing else.
BareStatus == Http(200, Json(Obj([res |-> Field(Body, "res")])))

C24_StatusBeforePayload ==
    StatusNotOK =>
        /\ outcome.kind = "throw"
        /\ outcome = Settle(gen, op, args, BareStatus)
        /\ outcome.error.name = "ZodError" =>
               \A issue \in outcome.error.issues : issue.path = <<"res">>

(***************************************************************************)
(* C25.  On a success response of more than one result GetReplay returns   *)
(* the first result, the one it returns when the first result arrives      *)
(* alone, provided every result validates; when some result does not       *)
(* validate, it fails.                                                     *)
(***************************************************************************)
SeveralResults == Settled("GetReplay") /\ ListResponse /\ Len(ResultList) > 1

\* The Replay schema of the generation, the documented one where it has none.
Validates(replay) ==
    Conforms(ReplaySchema(IF gen \in ZodGenerations THEN gen ELSE "options"), replay)

\* The same response with the first result alone.
FirstAlone ==
    Http(response.status,
         Json(Envelope(Str("OK"), "results",
                       Obj([results |-> Arr(<<ResultList[1]>>),
                            count |-> Field(Field(Body, "results"), "count")]))))

C25_FirstOfSeveral ==
    SeveralResults =>
        IF \A i \in 1..Len(ResultList) : Validates(ResultList[i])
          THEN /\ outcome.kind = "return"
               /\ outcome = Settle(gen, op, args, FirstAlone)
          ELSE outcome.kind = "throw"

(***************************************************************************)
(* C26.  The network GetVideoURL returns a URL exactly when the returned   *)
(* map holds a non-empty string under the requested id, and then that      *)
(* string; an id mapped to the empty string fails with the error an absent *)
(* id fails with.                                                          *)
(***************************************************************************)
VideoLookedUp ==
    Settled("GetVideoURL") /\ gen \in ZodGenerations /\ HasJson /\ IsVideoMap(Body)

C26_VideoURLIffNonEmpty ==
    VideoLookedUp =>
        LET id == QuarkidOf(args.replay).s
            held == id \in DOMAIN Body.o /\ Body.o[id] # Str("")
        IN  /\ outcome.kind = "return" <=> held
            /\ held => outcome = Return(Body.o[id])
            /\ outcome.kind = "return" => outcome.value # Str("")
            /\ ~held => outcome = Settle(gen, op, args, Http(200, Json(Obj(NoFields))))

(***************************************************************************)
(* C27.  GetReplays and GetUserReplays of the root generations send an     *)
(* optional parameter, with the value supplied, exactly when it, every     *)
(* parameter before it in the order limit, offset, best, since, and both   *)
(* limit and offset were supplied; so limit without offset sends neither,  *)
(* and no unsupplied parameter is sent.                                    *)
(***************************************************************************)
OverloadOrder == <<"limit", "offset", "best", "since">>

OverloadCalled ==
    /\ pc # "idle"
    /\ gen \in RootGenerations
    /\ op \in {"GetReplays", "GetUserReplays"}

SuppliedArg(k) == args[k].t # "undef"

C27_OverloadPrefix ==
    OverloadCalled =>
        \A n \in 1..Len(OverloadOrder) :
            LET k == OverloadOrder[n]
            IN  /\ k \in DOMAIN Request.body.o <=>
                       /\ \A m \in 1..n : SuppliedArg(OverloadOrder[m])
                       /\ SuppliedArg("limit")
                       /\ SuppliedArg("offset")
                /\ k \in DOMAIN Request.body.o => Request.body.o[k] = args[k]

\* limit, offset and since were supplied without best: since is not sent.
C27_Witness ==
    /\ OverloadCalled
    /\ SuppliedArg("limit") /\ SuppliedArg("offset") /\ SuppliedArg("since")
    /\ ~SuppliedArg("best")
    /\ DOMAIN Request.body.o \cap {"limit", "offset", "best", "since"} = {"limit", "offset"}

(***************************************************************************)
(* C28.  A call of GetReplays, GetUserReplays or GetRankings that supplies *)
(* all four options sends, in the positional and in the options            *)
(* generation, the same request: the same key-value pairs to the same      *)
(* endpoint.                                                               *)
(***************************************************************************)
AllOptions(o) ==
    IF o = "GetRankings"
      THEN {"limit", "offset", "byElo", "recent"}
      ELSE {"limit", "offset", "best", "since"}

AllOptionsSupplied ==
    /\ pc # "idle"
    /\ gen \in ZodGenerations
    /\ op \in {"GetReplays", "GetUserReplays", "GetRankings"}
    /\ \A k \in AllOptions(op) : OptionArg(k) # Undef
    /\ gen = "options" => DOMAIN args.args = AllOptions(op)

\* The same call written in the convention of generation g.
AsCalledIn(g) ==
    LET required == [k \in DOMAIN args \ ({"args"} \cup AllOptions(op)) |-> args[k]]
        options == [k \in AllOptions(op) |-> OptionArg(k)]
    IN  IF g = "options" THEN required @@ [args |-> options] ELSE required @@ options

C28_SameRequestBothConventions ==
    AllOptionsSupplied =>
        \A g \in ZodGenerations :
            sent = Fetch(<<>>, Endpoint(g, op), RequestInit(g, op, AsCalledIn(g)))

\* The options generation searched a user's replays with all four options.
C28_Witness ==
    /\ AllOptionsSupplied
    /\ gen = "options"
    /\ op = "GetUserReplays"
    /\ Request.body.o = [req |-> Str("searchquarks"), username |-> Str("biggs"),
                         limit |-> Num(5), offset |-> Num(10), best |-> Bool(TRUE),
                         since |-> Num(1658)]

(***************************************************************************)
(* C29.  The value a schema-validated operation returns has, in every      *)
(* User, Replay, Player, Country, Game, Event and per-game statistics      *)
(* entry, no key its schema does not declare, while a game-id mapping and  *)
(* a challenge-id mapping keep every key that arrived.                     *)
(***************************************************************************)
KeysWithin(schema, out) == out.t = "obj" /\ DOMAIN out.o \subseteq DOMAIN schema.shape

\* Every game id that arrived, but those in dropped, is kept, and each entry
\* has declared keys only.
GameInfoKept(out, in, dropped) ==
    /\ out.t = "obj"
    /\ DOMAIN out.o = DOMAIN in.o \ dropped
    /\ \A id \in DOMAIN out.o :
          out.o[id].t = "obj" /\ DOMAIN out.o[id].o \subseteq GameInfoFields

HolderDeclared(schema, out, in, dropped) ==
    /\ KeysWithin(schema, out)
    /\ "gameinfo" \in DOMAIN out.o => GameInfoKept(out.o.gameinfo, in.o.gameinfo, dropped)

PlayerDeclared(out, in, dropped) ==
    /\ HolderDeclared(PlayerSchema, out, in, dropped)
    /\ out.o.country.t = "obj" => KeysWithin(CountrySchema, out.o.country)

ReplayDeclared(g, out, in, dropped) ==
    /\ KeysWithin(ReplaySchema(g), out)
    /\ Len(out.o.players.a) = Len(in.o.players.a)
    /\ \A i \in 1..Len(out.o.players.a) :
           PlayerDeclared(out.o.players.a[i], in.o.players.a[i], dropped)

ValidatedReturn == pc = "settled" /\ gen \in ZodGenerations /\ outcome.kind = "return"

\* The returned value has declared keys only, and its mappings every key that
\* arrived but those in dropped.
DeclaredKeysOnly(dropped) ==
    CASE op = "GetUser" ->
           HolderDeclared(UserSchema, outcome.value, Field(Body, "user"), dropped)
      [] op = "GetGame" -> KeysWithin(GameSchema(gen), outcome.value)
      [] op = "GetReplay" -> ReplayDeclared(gen, outcome.value, ResultList[1], dropped)
      [] op \in {"GetReplays", "GetUserReplays"} ->
             /\ Len(outcome.value.a) = Len(ResultList)
             /\ \A i \in 1..Len(ResultList) :
                    ReplayDeclared(gen, outcome.value.a[i], ResultList[i], dropped)
      [] op = "GetRankings" ->
             /\ Len(outcome.value.a) = Len(ResultList)
             /\ \A i \in 1..Len(ResultList) :
                    PlayerDeclared(outcome.value.a[i], ResultList[i], dropped)
      [] op = "GetEvents" ->
             \A i \in 1..Len(outcome.value.a) : KeysWithin(EventSchema, outcome.value.a[i])
      [] op = "GetVideoURLs" -> DOMAIN outcome.value.o = DOMAIN Body.o \ dropped
      [] OTHER -> TRUE

C29_OnlyDeclaredKeys == ValidatedReturn => DeclaredKeysOnly({})

(***************************************************************************)
(* C29, amended.  The value a schema-validated operation returns has, in   *)
(* every User, Replay, Player, Country, Game, Event and per-game           *)
(* statistics entry, no key its schema does not declare, while a game-id   *)
(* mapping and a challenge-id mapping keep every key that arrived but      *)
(* "__proto__".                                                            *)
(***************************************************************************)
C29_OnlyDeclaredKeysButProto == ValidatedReturn => DeclaredKeysOnly({"__proto__"})

\* Rankings returned a player whose country arrived with a key that is not
\* declared and whose statistics cover two games, one entry with such a key.
C29_Witness ==
    /\ ValidatedReturn
    /\ op = "GetRankings"
    /\ \E i \in 1..Len(ResultList) :
           /\ ResultList[i] = PlayerObject
           /\ "flag" \in DOMAIN ResultList[i].o.country.o
           /\ "flag" \notin DOMAIN outcome.value.a[i].o.country.o
           /\ "hours" \in DOMAIN ResultList[i].o.gameinfo.o.sfa3.o
           /\ DOMAIN outcome.value.a[i].o.gameinfo.o = {"umk3", "sfa3"}

(***************************************************************************)
(* C30.  When GetReplays returns a non-empty list, GetReplay settles on    *)
(* the same response by returning the first element of that list: the      *)
(* second validation of the Replay changes nothing.                        *)
(***************************************************************************)
ReplaysReturned ==
    /\ Settled("GetReplays")
    /\ outcome.kind = "return"
    /\ outcome.value.t = "arr"
    /\ Len(outcome.value.a) > 0

C30_GetReplayIsFirstOfGetReplays ==
    ReplaysReturned =>
        \A q \in Quarkids :
            Settle(gen, "GetReplay", [quarkid |-> q], response) = Return(outcome.value.a[1])

\* A validated GetReplays returned two replays, the first without the keys
\* the schema does not declare.
C30_Witness ==
    /\ ReplaysReturned
    /\ gen \in ZodGenerations
    /\ Len(outcome.value.a) = 2
    /\ outcome.value.a[1] # outcome.value.a[2]
    /\ outcome.value.a[1] # ResultList[1]

====
